---------------------------- MODULE Spec2Model ----------------------------
(***************************************************************************)
(* Model of the scoring and insight engine of YouTube Audit Pro            *)
(* (src/app.py).                                                           *)
(*                                                                         *)
(* Conventions                                                             *)
(*  - A text (title, description) is a sequence of one-character strings.  *)
(*  - A float that the code may hold as a number, as NaN or as None is a   *)
(*    record [kind, v]; kind is "num", "nan" or "none".                    *)
(*  - Percentages (like_rate_%, comment_rate_%) and views_per_min are      *)
(*    held in hundredths, the resolution .round(2) leaves them with;       *)
(*    health_100 is held in tenths (.round(1)).                            *)
(*  - Instants and ages are held in seconds (age_min = seconds / 60).      *)
(*  - Watch ratios, elapsed ratios and drops are held in hundredths.       *)
(*  - Each component has its own specification (SpecSeo, SpecTips, ...);   *)
(*    the variables of the other components keep their idle value there.   *)
(***************************************************************************)
EXTENDS Integers, Sequences, FiniteSets, TLC

VARIABLES
    pc,            \* position of the running handler / call
    title,         \* seo_score_row argument
    desc,          \* seo_score_row argument
    like_rate,     \* seo_score_row argument (hundredths of a percent)
    comment_rate,  \* seo_score_row argument (hundredths of a percent)
    dup_penalty,   \* seo_score_row argument
    seo,           \* seo_score_row return value
    v,             \* improvements_for_video argument (video dict)
    median_views,  \* improvements_for_video argument
    tips,          \* improvements_for_video return value
    duration_iso,  \* contentDetails.duration of the video (Retention tab)
    curve,         \* top_drop_insights argument df (retention rows)
    video_secs,    \* top_drop_insights argument
    k,             \* top_drop_insights argument
    insights,      \* top_drop_insights return value
    clock,         \* the wall clock, in seconds
    df,            \* the fetched batch (DataFrame rows, one record per video)
    df_out,        \* the frame with the derived columns attached
    vids_list,     \* st.session_state["videos"]
    report_tips,   \* tips printed by build_elite_pdf, one list per video
    cad,           \* cadence_stats return value
    videos,        \* build_youtube_audit_pdf argument (list of video dicts)
    pillars,       \* Channel Health pillars of build_youtube_audit_pdf
    overall,       \* Channel Health overall score
    fs,            \* the license file and its .tmp file on disk
    session_state, \* st.session_state of a browser session: licensed, admin
    activated,     \* outcome of the session's last Activate click
    procs          \* the license-store calls of the concurrent sessions

vars == <<pc, title, desc, like_rate, comment_rate, dup_penalty, seo,
          v, median_views, tips, duration_iso, curve, video_secs, k, insights,
          clock, df, df_out, vids_list, report_tips, cad,
          videos, pillars, overall, fs, session_state, activated, procs>>

seoVars   == <<title, desc, like_rate, comment_rate, dup_penalty, seo>>
tipsVars  == <<v, median_views, tips>>
dropVars  == <<duration_iso, curve, video_secs, k, insights>>
auditVars == <<clock, df, df_out, vids_list, report_tips, cad>>
pdfVars   == <<videos, pillars, overall>>
licVars   == <<fs, session_state, activated, procs>>

Idle == <<>>

\* the variables of a component that a specification does not run
IdleSeo ==
    /\ title = Idle /\ desc = Idle /\ like_rate = Idle
    /\ comment_rate = Idle /\ dup_penalty = Idle /\ seo = Idle
IdleTips == v = Idle /\ median_views = Idle /\ tips = Idle
IdleDrop ==
    /\ duration_iso = Idle /\ curve = Idle /\ video_secs = Idle
    /\ k = Idle /\ insights = Idle
IdleAudit ==
    /\ clock = Idle /\ df = Idle /\ df_out = Idle
    /\ vids_list = Idle /\ report_tips = Idle /\ cad = Idle
IdlePdf == videos = Idle /\ pillars = Idle /\ overall = Idle
IdleLic ==
    /\ fs = Idle /\ session_state = Idle /\ activated = Idle /\ procs = Idle

-----------------------------------------------------------------------------
(* Python floats: numbers, NaN, None                                       *)

Num(x) == [kind |-> "num", v |-> x]
NaN    == [kind |-> "nan", v |-> 0]
None   == [kind |-> "none", v |-> 0]

IsNum(x) == x.kind = "num"
IsNaN(x) == x.kind = "nan"

\* `x or 0.0`: None and 0 are falsy, NaN is truthy
OrZero(x) == IF x.kind = "none" \/ (IsNum(x) /\ x.v = 0) THEN Num(0) ELSE x

\* every ordering comparison with NaN is False
PyGt(a, b) == IsNum(a) /\ IsNum(b) /\ a.v > b.v
PyLt(a, b) == IsNum(a) /\ IsNum(b) /\ a.v < b.v

\* builtin max(a, b): keeps a unless b > a; builtin min(a, b): keeps a unless b < a
PyMax(a, b) == IF PyGt(b, a) THEN b ELSE a
PyMin(a, b) == IF PyLt(b, a) THEN b ELSE a

\* int(n / d) for d > 0: truncation toward zero
TruncDiv(n, d) == IF n >= 0 THEN n \div d ELSE -((-n) \div d)

Max2(a, b) == IF a >= b THEN a ELSE b
Min2(a, b) == IF a <= b THEN a ELSE b
Abs(a) == IF a >= 0 THEN a ELSE -a

\* round-half-to-even of n / d for d > 0 (numpy/pandas .round)
RoundDiv(n, d) ==
    LET q == n \div d
        r == n % d
    IN  IF 2 * r < d THEN q
        ELSE IF 2 * r > d THEN q + 1
        ELSE IF q % 2 = 0 THEN q ELSE q + 1

-----------------------------------------------------------------------------
(* Characters                                                              *)

Digits == {"0", "1", "2", "3", "4", "5", "6", "7", "8", "9"}
UpperSeq == <<"A", "B", "C", "D", "E", "F", "G", "H", "I", "J", "K", "L", "M",
              "N", "O", "P", "Q", "R", "S", "T", "U", "V", "W", "X", "Y", "Z">>
LowerSeq == <<"a", "b", "c", "d", "e", "f", "g", "h", "i", "j", "k", "l", "m",
              "n", "o", "p", "q", "r", "s", "t", "u", "v", "w", "x", "y", "z">>
UpperLetters == {UpperSeq[i] : i \in DOMAIN UpperSeq}
LowerLetters == {LowerSeq[i] : i \in DOMAIN LowerSeq}

\* str.lower() on one character
LowerCh(ch) ==
    IF ch \in UpperLetters
    THEN LowerSeq[CHOOSE i \in DOMAIN UpperSeq : UpperSeq[i] = ch]
    ELSE ch

\* str.lower()
Lower(s) == [i \in DOMAIN s |-> LowerCh(s[i])]

\* regex \w
IsWordCh(ch) == ch \in Digits \cup UpperLetters \cup LowerLetters \cup {"_"}

\* regex \b at the gap before position i of s (1 <= i <= Len(s) + 1)
Boundary(s, i) ==
    LET before == i > 1 /\ IsWordCh(s[i - 1])
        after  == i <= Len(s) /\ IsWordCh(s[i])
    IN  before # after

\* s[i .. i + Len(w) - 1] = w
MatchAt(s, i, w) ==
    /\ i + Len(w) - 1 <= Len(s)
    /\ \A j \in 1..Len(w) : s[i + j - 1] = w[j]

\* re.search of a literal
Contains(s, w) == \E i \in 1..Len(s) : MatchAt(s, i, w)

Rep(ch, n) == [i \in 1..n |-> ch]

-----------------------------------------------------------------------------
(* SEO scoring: _POWER, _has_number, _has_link, _has_chapters,             *)
(* seo_score_row                                                           *)

\* the alternatives of the _POWER pattern
PowerWords ==
    {<<"b", "e", "s", "t">>,
     <<"s", "e", "c", "r", "e", "t">>,
     <<"f", "a", "s", "t">>,
     <<"s", "i", "m", "p", "l", "e">>,
     <<"u", "l", "t", "i", "m", "a", "t", "e">>,
     <<"n", "e", "w">>,
     <<"p", "r", "o", "o", "f">>,
     <<"f", "r", "e", "e">>,
     <<"e", "a", "s", "y">>,
     <<"g", "u", "i", "d", "e">>,
     <<"m", "i", "s", "t", "a", "k", "e">>,
     <<"h", "a", "c", "k">>,
     <<"w", "i", "n">>,
     <<"e", "a", "r", "n">>,
     <<"r", "i", "c", "h">>,
     <<"m", "o", "n", "e", "y">>,
     <<"t", "r", "u", "t", "h">>,
     <<"b", "e", "h", "i", "n", "d">>,
     <<"s", "t", "r", "a", "t", "e", "g", "y">>,
     <<"b", "l", "u", "e", "p", "r", "i", "n", "t">>}

\* _POWER.search(s): \b(word)\b, re.I
POWER_search(s) ==
    LET low == Lower(s)
    IN  \E w \in PowerWords : \E i \in 1..Len(s) :
            /\ MatchAt(low, i, w)
            /\ Boundary(s, i)
            /\ Boundary(s, i + Len(w))

has_number(s) == \E i \in 1..Len(s) : s[i] \in Digits

has_link(s) ==
    \/ Contains(s, <<"h", "t", "t", "p", ":", "/", "/">>)
    \/ Contains(s, <<"h", "t", "t", "p", "s", ":", "/", "/">>)

\* mutant of has_chapters: the pattern without its two \b
has_chapters_Unanchored(s) ==
    \E i \in 2..Len(s) :
        /\ s[i] = ":"
        /\ s[i - 1] \in Digits
        /\ i + 2 <= Len(s)
        /\ s[i + 1] \in Digits
        /\ s[i + 2] \in Digits

\* re.search(r"\b\d{1,2}:\d{2}\b", s); i is the position of the colon
has_chapters(s) ==
    \E i \in 1..Len(s) :
        /\ s[i] = ":"
        /\ i + 2 <= Len(s)
        /\ s[i + 1] \in Digits
        /\ s[i + 2] \in Digits
        /\ Boundary(s, i + 3)
        /\ \/ i >= 2 /\ s[i - 1] \in Digits /\ Boundary(s, i - 1)
           \/ /\ i >= 3
              /\ s[i - 1] \in Digits
              /\ s[i - 2] \in Digits
              /\ Boundary(s, i - 2)

\* mutants of RateFloor: the max() left out; the arguments of max() swapped
RateFloor_NoMax(rate) == OrZero(rate)
RateFloor_Swapped(rate) == PyMax(OrZero(rate), Num(0))

\* lr = max(0.0, float(like_rate or 0.0))
RateFloor(rate) == PyMax(Num(0), OrZero(rate))

\* int(min(r, cap) / cap * points); int() of NaN raises ValueError.
\* r and cap are in hundredths.
BandPoints(r, cap, points) ==
    LET m == PyMin(r, Num(cap))
    IN  IF IsNum(m)
        THEN [raised |-> FALSE, pts |-> TruncDiv(m.v * points, cap)]
        ELSE [raised |-> TRUE, pts |-> 0]

Raised == [raised |-> TRUE]

\* mutant of title_len_ok: exclusive bounds
title_len_ok_Exclusive(t) == 45 < Len(t) /\ Len(t) < 70

\* 45 <= len(title) <= 70
title_len_ok(t) == 45 <= Len(t) /\ Len(t) <= 70

seo_score_row(t, d, lrate, crate, dup) ==
    LET ok_len    == title_len_ok(t)
        pw        == POWER_search(t)
        num       == has_number(t)
        long_desc == Len(d) >= 200
        chapters  == has_chapters(d)
        links     == has_link(d)
        lr        == RateFloor(lrate)
        cr        == RateFloor(crate)
        lpts      == BandPoints(lr, 500, 18)
        cpts      == BandPoints(cr, 100, 7)
        pts       == (IF ok_len THEN 12 ELSE 0)
                     + (IF pw THEN 10 ELSE 0)
                     + (IF num THEN 8 ELSE 0)
                     + (IF dup = 0 THEN 10 ELSE 0)
                     + (IF long_desc THEN 15 ELSE 0)
                     + (IF chapters THEN 10 ELSE 0)
                     + (IF links THEN 10 ELSE 0)
                     + lpts.pts + cpts.pts
    IN  IF lpts.raised \/ cpts.raised
        THEN Raised
        ELSE [raised |-> FALSE,
              score  |-> Min2(100, pts),
              notes  |-> [title_len_ok |-> ok_len,
                          power_word   |-> pw,
                          has_number   |-> num,
                          dup_penalty  |-> dup,
                          desc_len_ok  |-> long_desc,
                          chapters     |-> chapters,
                          links        |-> links,
                          like_rate    |-> lr,
                          comment_rate |-> cr]]

-----------------------------------------------------------------------------
(* SpecSeo: seo_score_row called on one row                                *)

MaxLikeSteps == 3
MaxCommentSteps == 3
MaxDupPenalty == 1

\* head, padded with fill to n characters (head alone when it is longer)
MakeText(head, n, fill) ==
    IF n > Len(head) THEN head \o Rep(fill, n - Len(head)) ELSE head

SeoTitleHeads ==
    {<<>>,
     <<"B", "E", "S", "T", " ">>,
     <<"b", "e", "s", "t", "7", " ">>,
     <<"n", "e", "w", " ", "7", " ">>}
SeoTitles == {MakeText(h, n, "x") : h \in SeoTitleHeads, n \in {44, 45, 70, 71}}

SeoDescHeads ==
    {<<>>,
     <<"0", ":", "0", "0", " ">>,
     <<"a", "1", ":", "2", "3", " ", "h", "t", "t", "p", ":", "/", "/">>,
     <<"h", "t", "t", "p", "s", ":", "/", "/", "a", " ", "1", "2", ":", "3", "4", " ">>}
SeoDescs == {MakeText(h, n, ".") : h \in SeoDescHeads, n \in {50, 199, 200}}

SeoLikeRates ==
    {None, NaN, Num(-100), Num(139)} \cup {Num(250 * j) : j \in 0..MaxLikeSteps}
SeoCommentRates ==
    {None, NaN, Num(-50)} \cup {Num(50 * j) : j \in 0..MaxCommentSteps}

InitSeo ==
    /\ pc = "call"
    /\ title \in SeoTitles
    /\ desc \in SeoDescs
    /\ like_rate \in SeoLikeRates
    /\ comment_rate \in SeoCommentRates
    /\ dup_penalty \in 0..MaxDupPenalty
    /\ seo = Idle
    /\ IdleTips /\ IdleDrop /\ IdleAudit /\ IdlePdf /\ IdleLic

SeoScoreRow ==
    /\ pc = "call"
    /\ seo' = seo_score_row(title, desc, like_rate, comment_rate, dup_penalty)
    /\ pc' = "return"
    /\ UNCHANGED <<title, desc, like_rate, comment_rate, dup_penalty>>
    /\ UNCHANGED <<tipsVars, dropVars, auditVars, pdfVars, licVars>>

NextSeo == SeoScoreRow

SpecSeo == InitSeo /\ [][NextSeo]_vars

\* seo_score_row on every short description over a digit, a letter, the
\* colon and the blank
MaxDescLen == 6

ChapterAlphabet == {"1", "a", ":", " "}

InitChapters ==
    /\ pc = "call"
    /\ title = <<"n", "e", "w">>
    /\ \E n \in 0..MaxDescLen : desc \in [1..n -> ChapterAlphabet]
    /\ like_rate = Num(0)
    /\ comment_rate = Num(0)
    /\ dup_penalty = 0
    /\ seo = Idle
    /\ IdleTips /\ IdleDrop /\ IdleAudit /\ IdlePdf /\ IdleLic

SpecChapters == InitChapters /\ [][NextSeo]_vars

\* s[a..b] is one or two digits, a colon and two digits
IsStamp(s, a, b) ==
    /\ 1 <= a /\ b <= Len(s) /\ b - a \in {3, 4}
    /\ s[b - 2] = ":"
    /\ \A j \in a..b : j # b - 2 => s[j] \in Digits

\* some substring of s matches \d{1,2}:\d{2}
HasStamp(s) == \E a \in 1..Len(s) : \E b \in a..Len(s) : IsStamp(s, a, b)

\* some substring of s matches \d{1,2}:\d{2} and has no letter, digit or
\* underscore next to it on either side
HasFreeStamp(s) ==
    \E a \in 1..Len(s) : \E b \in a..Len(s) :
        /\ IsStamp(s, a, b)
        /\ a > 1 => ~IsWordCh(s[a - 1])
        /\ b < Len(s) => ~IsWordCh(s[b + 1])

\* C20: the has-chapter-markers flag of the SEO breakdown is true exactly
\* when the description contains a substring matching \d{1,2}:\d{2}, for
\* every description.
C20_AnySubstring ==
    pc = "return" => (seo.notes.chapters <=> HasStamp(desc))

\* C20 as the code has it: the flag is true exactly when the description
\* contains such a substring standing between word boundaries.
C20_BetweenWordBoundaries ==
    pc = "return" => (seo.notes.chapters <=> HasFreeStamp(desc))

\* a time stamp glued to a letter does not count, one after a blank does
C20_Witness ==
    /\ pc = "return"
    /\ desc = <<"a", " ", "1", ":", "1", "1">>
    /\ seo.notes.chapters

C20_GluedStamp ==
    /\ pc = "return"
    /\ desc = <<"a", "1", ":", "1", "1">>
    /\ ~seo.notes.chapters

-----------------------------------------------------------------------------
(* Claims on seo_score_row (checked under SpecSeo)                         *)

Missing(rate) == rate.kind \in {"nan", "none"}
KnownOrZero(rate) == IF IsNum(rate) THEN rate.v ELSE 0

\* C1: for every title, description, like rate, comment rate (negative,
\* zero, None and NaN included) and duplicate penalty, seo_score_row returns
\* an integer score s with 0 <= s <= 100.
C1_ScoreInRange ==
    pc = "return" => ~seo.raised /\ seo.score \in 0..100

C1_Witness ==
    /\ pc = "return"
    /\ IsNaN(like_rate)
    /\ IsNum(comment_rate) /\ comment_rate.v < 0
    /\ ~seo.raised
    /\ seo.score \in 0..100

\* the seven yes/no awards of the rubric
C3_Checks ==
    (IF 45 <= Len(title) /\ Len(title) <= 70 THEN 12 ELSE 0)
    + (IF POWER_search(title) THEN 10 ELSE 0)
    + (IF has_number(title) THEN 8 ELSE 0)
    + (IF dup_penalty = 0 THEN 10 ELSE 0)
    + (IF Len(desc) >= 200 THEN 15 ELSE 0)
    + (IF has_chapters(desc) THEN 10 ELSE 0)
    + (IF has_link(desc) THEN 10 ELSE 0)

\* floor(min(x, cap) / cap * points), x and cap in hundredths
C3_Band(x, cap, points) == (Min2(x, cap) * points) \div cap

C3_AllChecksPass ==
    /\ 45 <= Len(title) /\ Len(title) <= 70
    /\ POWER_search(title) /\ has_number(title) /\ dup_penalty = 0
    /\ Len(desc) >= 200 /\ has_chapters(desc) /\ has_link(desc)
    /\ IsNum(like_rate) /\ like_rate.v >= 500
    /\ IsNum(comment_rate) /\ comment_rate.v >= 100

\* C3 as stated: the score is the sum of the rubric awards, the engagement
\* bands being floor(min(like_rate,5)/5*18) and floor(min(comment_rate,1)/1*7)
\* of the rates as given (a missing rate counting as 0).
C3_AsStated ==
    pc = "return" =>
        /\ ~seo.raised
        /\ seo.score = C3_Checks
                       + C3_Band(KnownOrZero(like_rate), 500, 18)
                       + C3_Band(KnownOrZero(comment_rate), 100, 7)

\* C3 amended: the score is the sum of the rubric awards, the engagement
\* bands being taken of max(rate, 0) (a missing rate counting as 0); a video
\* passing every check with like_rate >= 5 and comment_rate >= 1 scores 100.
C3_RubricSum ==
    pc = "return" =>
        /\ ~seo.raised
        /\ seo.score = C3_Checks
                       + C3_Band(Max2(KnownOrZero(like_rate), 0), 500, 18)
                       + C3_Band(Max2(KnownOrZero(comment_rate), 0), 100, 7)
        /\ C3_AllChecksPass => seo.score = 100

C3_Witness ==
    /\ pc = "return"
    /\ C3_AllChecksPass
    /\ like_rate.v > 500
    /\ seo.score = 100

\* C4: when the like rate or the comment rate is missing (None or NaN),
\* SEO scoring completes without error and awards the same points as if
\* that rate were 0.
C4_MissingRateAsZero ==
    pc = "return" /\ (Missing(like_rate) \/ Missing(comment_rate)) =>
        /\ ~seo.raised
        /\ seo.score = seo_score_row(title, desc,
                                     Num(KnownOrZero(like_rate)),
                                     Num(KnownOrZero(comment_rate)),
                                     dup_penalty).score

C4_Witness ==
    /\ pc = "return"
    /\ IsNaN(like_rate)
    /\ comment_rate = None
    /\ ~seo.raised
    /\ seo.score = 55

-----------------------------------------------------------------------------
(* Improvement advisor: improvements_for_video                             *)
(* (the typographic quotes and dashes of the tip texts are written in      *)
(* ASCII)                                                                  *)

TIP_NUMBER   == "Add one number to the title to anchor the promise."
TIP_LENGTHEN == "Lengthen title to ~55 chars with a clear outcome."
TIP_TRIM     == "Trim title to <=70 chars. Remove filler words."
TIP_POWER    == "Add one power word (e.g., 'ultimate', 'simple', 'proven')."
TIP_DESC     == "Extend description to >200 chars with 1-2 links near the top."
TIP_CHAPTERS == "Add chapters (timestamps) for navigation."
TIP_LINK     == "Include one clear CTA link in the first 3 lines."
TIP_COMMENTS == "Pin a question and reply to the first 5 comments."
TIP_THUMB    == "Test a stronger thumbnail: big face + 2-4 words + strong contrast."
TIP_FALLBACK == "Solid baseline. Split-test title and thumbnail for 24h."

\* int(x or 0) of a dict value: None and 0 give 0, NaN raises ValueError
IntOrZero(x) ==
    LET y == OrZero(x)
    IN  IF IsNum(y) THEN [raised |-> FALSE, n |-> y.v]
        ELSE [raised |-> TRUE, n |-> 0]

When(cond, tip) == IF cond THEN <<tip>> ELSE <<>>

\* mutant of TitleTooShort: the threshold of the example instead of 45
TitleTooShort_40(t) == Len(t) < 40

\* mutant of TitleTooShort: a title of 45 characters counts as short
TitleTooShort_Inclusive(t) == Len(t) <= 45

\* len(title) < 45
TitleTooShort(t) == Len(t) < 45

\* views < max(1000, 0.8 * median_views)
LowViews(views, med) == views < 1000 \/ 5 * views < 4 * med

\* the tips appended by the rule checks, in evaluation order
RuleTips(t, d, views, comments, med) ==
    When(~has_number(t), TIP_NUMBER)
    \o (IF TitleTooShort(t) THEN <<TIP_LENGTHEN>>
        ELSE IF Len(t) > 70 THEN <<TIP_TRIM>>
        ELSE <<>>)
    \o When(~POWER_search(t), TIP_POWER)
    \o When(Len(d) < 200, TIP_DESC)
    \o When(~has_chapters(d), TIP_CHAPTERS)
    \o When(~has_link(d), TIP_LINK)
    \o When(comments = 0, TIP_COMMENTS)
    \o When(LowViews(views, med), TIP_THUMB)

\* the loop over tips: seen, out, break at six; i is the next index
RECURSIVE DedupLoop(_, _, _)
DedupLoop(ts, i, out) ==
    IF i > Len(ts) THEN out
    ELSE LET t    == ts[i]
             out2 == IF \E j \in 1..Len(out) : out[j] = t
                     THEN out ELSE Append(out, t)
         IN  IF Len(out2) = 6 THEN out2 ELSE DedupLoop(ts, i + 1, out2)

\* mutant of DedupCap: the loop without its break
RECURSIVE DedupLoop_NoBreak(_, _, _)
DedupLoop_NoBreak(ts, i, out) ==
    IF i > Len(ts) THEN out
    ELSE LET t    == ts[i]
             out2 == IF \E j \in 1..Len(out) : out[j] = t
                     THEN out ELSE Append(out, t)
         IN  DedupLoop_NoBreak(ts, i + 1, out2)
DedupCap_NoBreak(ts) == DedupLoop_NoBreak(ts, 1, <<>>)

DedupCap(ts) == DedupLoop(ts, 1, <<>>)

\* vd is the video dict: title, description, views, comments
improvements_for_video(vd, med) ==
    LET views    == IntOrZero(vd.views)
        comments == IntOrZero(vd.comments)
        out      == DedupCap(RuleTips(vd.title, vd.description,
                                      views.n, comments.n, med))
    IN  IF views.raised \/ comments.raised THEN Raised
        ELSE [raised |-> FALSE,
              tips   |-> IF out = <<>> THEN <<TIP_FALLBACK>> ELSE out]

-----------------------------------------------------------------------------
(* SpecTips: improvements_for_video called on one video                    *)

MaxViewSteps == 3

TipsTitles == {MakeText(h, n, "x") : h \in SeoTitleHeads, n \in {40, 45, 71}}
TipsDescs  == {MakeText(h, n, ".") : h \in SeoDescHeads, n \in {50, 200}}
TipsViews  == {None, Num(999)} \cup {Num(500 * j) : j \in 0..MaxViewSteps}
TipsComments == {None, Num(0), Num(3)}
TipsMedians == {0, 1251, 10000}

InitTips ==
    /\ pc = "call"
    /\ v \in [title : TipsTitles, description : TipsDescs,
              views : TipsViews, comments : TipsComments]
    /\ median_views \in TipsMedians
    /\ tips = Idle
    /\ IdleSeo /\ IdleDrop /\ IdleAudit /\ IdlePdf /\ IdleLic

ImprovementsForVideo ==
    /\ pc = "call"
    /\ tips' = improvements_for_video(v, median_views)
    /\ pc' = "return"
    /\ UNCHANGED <<v, median_views>>
    /\ UNCHANGED <<seoVars, dropVars, auditVars, pdfVars, licVars>>

NextTips == ImprovementsForVideo

SpecTips == InitTips /\ [][NextTips]_vars

\* seo_score_row and improvements_for_video on the same title and
\* description, as the audit and the report run them on one video
InitAdvise ==
    /\ pc = "call"
    /\ title \in SeoTitles
    /\ desc \in SeoDescs
    /\ like_rate = Num(0)
    /\ comment_rate = Num(0)
    /\ dup_penalty = 0
    /\ seo = Idle
    /\ \E vw \in {Num(0), Num(5000)}, cm \in {Num(0), Num(3)} :
          v = [title |-> title, description |-> desc,
               views |-> vw, comments |-> cm]
    /\ median_views = 0
    /\ tips = Idle
    /\ IdleDrop /\ IdleAudit /\ IdlePdf /\ IdleLic

AdviseScored ==
    /\ pc = "return"
    /\ tips' = improvements_for_video(v, median_views)
    /\ pc' = "advised"
    /\ UNCHANGED <<v, median_views>>
    /\ UNCHANGED <<seoVars, dropVars, auditVars, pdfVars, licVars>>

NextAdvise == SeoScoreRow \/ AdviseScored

SpecAdvise == InitAdvise /\ [][NextAdvise]_vars

-----------------------------------------------------------------------------
(* Claims on improvements_for_video (checked under SpecTips)               *)

NoDuplicates(seq) == \A i, j \in 1..Len(seq) : i # j => seq[i] # seq[j]
Includes(seq, x) == \E i \in 1..Len(seq) : seq[i] = x

\* the rules in their fixed evaluation order, each with whether it fires on
\* the video in v and the tip it gives
TipRules ==
    LET t == v.title
        d == v.description
    IN  << [fires |-> ~has_number(t), tip |-> TIP_NUMBER],
           [fires |-> Len(t) < 45 \/ Len(t) > 70,
            tip   |-> IF Len(t) < 45 THEN TIP_LENGTHEN ELSE TIP_TRIM],
           [fires |-> ~POWER_search(t), tip |-> TIP_POWER],
           [fires |-> Len(d) < 200, tip |-> TIP_DESC],
           [fires |-> ~has_chapters(d), tip |-> TIP_CHAPTERS],
           [fires |-> ~has_link(d), tip |-> TIP_LINK],
           [fires |-> KnownOrZero(v.comments) = 0, tip |-> TIP_COMMENTS],
           [fires |-> \/ KnownOrZero(v.views) < 1000
                      \/ 10 * KnownOrZero(v.views) < 8 * median_views,
            tip   |-> TIP_THUMB] >>

FiredRules == SelectSeq(TipRules, LAMBDA r : r.fires)
FiredTips ==
    LET fr == FiredRules
    IN  [i \in 1..Len(fr) |-> fr[i].tip]

\* position of a tip in the fixed order (the two title-length tips share one)
TipRank(tip) ==
    IF tip = TIP_TRIM THEN 2
    ELSE CHOOSE i \in 1..8 :
            tip = <<TIP_NUMBER, TIP_LENGTHEN, TIP_POWER, TIP_DESC,
                    TIP_CHAPTERS, TIP_LINK, TIP_COMMENTS, TIP_THUMB>>[i]

InRuleOrder(seq) ==
    \A i, j \in 1..Len(seq) : i < j => TipRank(seq[i]) < TipRank(seq[j])

\* C8: improvements_for_video returns between 1 and 6 tips with no duplicate
\* text: the first six rules that fire, in the fixed evaluation order (title
\* too short or too long, never both); the single fallback tip is returned
\* exactly when no rule fires.
C8_FirstSixFired ==
    pc = "return" =>
        LET fired == FiredTips
        IN  /\ ~tips.raised
            /\ Len(tips.tips) \in 1..6
            /\ NoDuplicates(tips.tips)
            /\ ~(Includes(tips.tips, TIP_LENGTHEN) /\ Includes(tips.tips, TIP_TRIM))
            /\ tips.tips = IF fired = <<>> THEN <<TIP_FALLBACK>>
                           ELSE SubSeq(fired, 1, Min2(6, Len(fired)))
            /\ (tips.tips = <<TIP_FALLBACK>>) <=> (fired = <<>>)

C8_Witness ==
    /\ pc = "return"
    /\ Len(FiredTips) = 8
    /\ Len(tips.tips) = 6
    /\ tips.tips = SubSeq(FiredTips, 1, 6)

\* the video of the example: no digit in the title, title length 40,
\* description length 50, zero comments, views far below the median
C9_Video ==
    /\ ~has_number(v.title)
    /\ Len(v.title) = 40
    /\ Len(v.description) = 50
    /\ v.comments = Num(0)
    /\ IsNum(v.views) /\ 2 * v.views.v < median_views

C9_Shape ==
    /\ Len(tips.tips) <= 6
    /\ InRuleOrder(tips.tips)
    /\ NoDuplicates(tips.tips)

\* C9 as stated: for every such video the tips include "add a number",
\* "lengthen title", "extend description", "add chapters" and "pin a
\* question", truncated at 6, in rule order, with no duplicates.
C9_AsStated ==
    pc = "return" /\ C9_Video =>
        /\ ~tips.raised
        /\ Includes(tips.tips, TIP_NUMBER)
        /\ Includes(tips.tips, TIP_LENGTHEN)
        /\ Includes(tips.tips, TIP_DESC)
        /\ Includes(tips.tips, TIP_CHAPTERS)
        /\ Includes(tips.tips, TIP_COMMENTS)
        /\ C9_Shape

\* C9 amended: for every such video the tips include "add a number",
\* "lengthen title" and "extend description"; "add chapters" exactly when
\* the description has no chapter marker; "pin a question" exactly when
\* fewer than six rules fire before it, that is when the title has a power
\* word or the description has a chapter marker or a link; the list has at
\* most 6 tips, in rule order, with no duplicates.
C9_ExampleTips ==
    pc = "return" /\ C9_Video =>
        /\ ~tips.raised
        /\ Includes(tips.tips, TIP_NUMBER)
        /\ Includes(tips.tips, TIP_LENGTHEN)
        /\ Includes(tips.tips, TIP_DESC)
        /\ Includes(tips.tips, TIP_CHAPTERS) <=> ~has_chapters(v.description)
        /\ Includes(tips.tips, TIP_COMMENTS) <=>
              \/ POWER_search(v.title)
              \/ has_chapters(v.description)
              \/ has_link(v.description)
        /\ C9_Shape

\* a video of the example with a power word in the title: five rules fire
\* before "pin a question", which is the sixth and last tip
C9_Witness ==
    /\ pc = "return"
    /\ C9_Video
    /\ POWER_search(v.title)
    /\ ~has_chapters(v.description) /\ ~has_link(v.description)
    /\ tips.tips = <<TIP_NUMBER, TIP_LENGTHEN, TIP_DESC, TIP_CHAPTERS,
                     TIP_LINK, TIP_COMMENTS>>

\* C28: the SEO breakdown and the Improvement Advisor agree on every
\* shared check: for the same title and description, the tip for a missing
\* number, off-length title, missing power word, short description,
\* missing chapters or missing link is among the fired rules exactly when
\* the corresponding breakdown flag (has_number, title_len_ok, power_word,
\* desc_len_ok, chapters, links) is false.
C28_BreakdownAndTipsAgree ==
    pc = "advised" =>
        /\ ~seo.raised /\ ~tips.raised
        /\ Includes(tips.tips, TIP_NUMBER) <=> ~seo.notes.has_number
        /\ (Includes(tips.tips, TIP_LENGTHEN) \/ Includes(tips.tips, TIP_TRIM))
              <=> ~seo.notes.title_len_ok
        /\ Includes(tips.tips, TIP_POWER) <=> ~seo.notes.power_word
        /\ Includes(tips.tips, TIP_DESC) <=> ~seo.notes.desc_len_ok
        /\ Includes(tips.tips, TIP_CHAPTERS) <=> ~seo.notes.chapters
        /\ Includes(tips.tips, TIP_LINK) <=> ~seo.notes.links

\* a title of 45 characters with a number and a power word over a
\* description of 199 characters with chapters and a link: the only shared
\* tip is the one for the description
C28_Witness ==
    /\ pc = "advised"
    /\ Len(title) = 45 /\ Len(desc) = 199
    /\ seo.notes.title_len_ok /\ seo.notes.has_number /\ seo.notes.power_word
    /\ seo.notes.chapters /\ seo.notes.links /\ ~seo.notes.desc_len_ok
    /\ v.comments = Num(0) /\ v.views = Num(0)
    /\ tips.tips = <<TIP_DESC, TIP_COMMENTS, TIP_THUMB>>

\* every shared check fails and two more rules fire: the six tips printed
\* are the shared ones
C28_AllSharedTips ==
    /\ pc = "advised"
    /\ Len(title) = 71
    /\ v.comments = Num(0) /\ v.views = Num(0)
    /\ tips.tips = <<TIP_NUMBER, TIP_TRIM, TIP_POWER, TIP_DESC, TIP_CHAPTERS,
                     TIP_LINK>>

-----------------------------------------------------------------------------
(* Retention: parse_yt_duration_iso8601, top_drop_insights                 *)

DigitValue(ch) == CHOOSE n \in 0..9 :
    ch = <<"0", "1", "2", "3", "4", "5", "6", "7", "8", "9">>[n + 1]

\* the loop over the characters after "PT": num is the pending number
\* (-1 for the empty string), total the seconds so far
RECURSIVE DurationLoop(_, _, _, _)
DurationLoop(d, i, num, total) ==
    IF i > Len(d) THEN total
    ELSE LET ch == d[i]
         IN  IF ch \in Digits
             THEN DurationLoop(d, i + 1,
                               (IF num < 0 THEN 0 ELSE num * 10) + DigitValue(ch),
                               total)
             ELSE IF num < 0 THEN DurationLoop(d, i + 1, num, total)
             ELSE DurationLoop(d, i + 1, -1,
                               total + (IF ch = "H" THEN num * 3600
                                        ELSE IF ch = "M" THEN num * 60
                                        ELSE IF ch = "S" THEN num
                                        ELSE 0))

parse_yt_duration_iso8601(d) ==
    IF Len(d) < 2 \/ d[1] # "P" \/ d[2] # "T" THEN 0
    ELSE DurationLoop(SubSeq(d, 3, Len(d)), 1, -1, 0)

\* d["drop"] = d["audienceWatchRatio"].diff().fillna(0.0)
Drops(rows) ==
    [i \in 1..Len(rows) |->
        IF i = 1 THEN 0 ELSE rows[i].watch - rows[i - 1].watch]

\* mutant of DropBefore: equal drops in reverse frame order (keep="last")
DropBefore_KeepLast(drops, i, j) ==
    drops[i] < drops[j] \/ (drops[i] = drops[j] /\ i > j)

\* row i comes before row j in nsmallest(k, "drop"): smaller drop first,
\* equal drops in the order of the frame (keep="first")
DropBefore(drops, i, j) ==
    drops[i] < drops[j] \/ (drops[i] = drops[j] /\ i < j)

\* mutant of nsmallest: only the rows with a negative drop are taken
nsmallest_NegativeOnly(drops, n) ==
    LET neg == Cardinality({j \in 1..Len(drops) : drops[j] < 0})
        m   == Min2(Max2(n, 0), neg)
        Rank(i) == Cardinality({j \in 1..Len(drops) : DropBefore(drops, j, i)}) + 1
    IN  [r \in 1..m |-> CHOOSE i \in 1..Len(drops) : Rank(i) = r]

\* the index labels of d.nsmallest(n, "drop"), in the order of the result
nsmallest(drops, n) ==
    LET m == Min2(Max2(n, 0), Len(drops))
        Rank(i) == Cardinality({j \in 1..Len(drops) : DropBefore(drops, j, i)}) + 1
    IN  [r \in 1..m |-> CHOOSE i \in 1..Len(drops) : Rank(i) = r]

\* the recommendation chosen by the second offset t
DropTip(t) ==
    IF t <= 10 THEN "open with a stronger hook, quick payoff in 0-10s"
    ELSE IF t <= 30 THEN "tighten intro, cut filler, show the outcome earlier"
    ELSE IF t <= 60 THEN "restate value, add motion/B-roll, remove a dead sentence"
    ELSE "refresh pacing or add pattern-break (graphic, jump-cut, reveal)"

\* mutant of Insight: the second offset truncated instead of rounded
Insight_Truncated(row, drop, secs) ==
    LET t == (row.elapsed * secs) \div 100
    IN  [pct |-> Max2(0, -drop * 10), t |-> t, tip |-> DropTip(t)]

\* one insight: pct in tenths of a percent as "{pct:.1f}" prints it (drops
\* are in hundredths, so -drop * 100.0 percent is -drop * 10 tenths),
\* t = int(round(elapsed * video_secs)) with elapsed in hundredths
Insight(row, drop, secs) ==
    LET t == RoundDiv(row.elapsed * secs, 100)
    IN  [pct |-> Max2(0, -drop * 10), t |-> t, tip |-> DropTip(t)]

\* mutant of NoInsights: only a negative duration is refused
NoInsights_NegativeOnly(rows, secs) == rows = <<>> \/ secs < 0

\* df.empty or video_secs <= 0
NoInsights(rows, secs) == rows = <<>> \/ secs <= 0

top_drop_insights(rows, secs, n) ==
    IF NoInsights(rows, secs) THEN <<>>
    ELSE LET drops == Drops(rows)
             big   == nsmallest(drops, n)
         IN  [r \in 1..Len(big) |-> Insight(rows[big[r]], drops[big[r]], secs)]

-----------------------------------------------------------------------------
(* SpecDrop: the Retention tab computes the duration and the insights, or  *)
(* top_drop_insights is called with a given duration                       *)

MaxCurveLen == 3
MaxK == 2

ElapsedValues == {0, 5, 10, 50}
WatchValues == {40, 95, 100}

\* retention rows sorted by elapsed ratio ("sort": "elapsedVideoTimeRatio")
Curves ==
    UNION {
        {c \in [1..n -> [elapsed : ElapsedValues, watch : WatchValues]] :
            \A i \in 1..(n - 1) : c[i].elapsed < c[i + 1].elapsed}
        : n \in 0..MaxCurveLen}

Durations ==
    {<<>>,
     <<"P", "1", "D">>,
     <<"P", "T", "0", "S">>,
     <<"P", "T", "4", "5">>,
     <<"P", "T", "1", "M", "4", "0", "S">>,
     <<"P", "T", "1", "H">>}

InitDrop ==
    /\ curve \in Curves
    /\ insights = Idle
    /\ \/ /\ pc = "call"
          /\ duration_iso = Idle
          /\ video_secs \in {-1, 0, 600, 615}
          /\ k \in 0..MaxK
       \/ /\ pc = "parse"
          /\ curve # <<>>
          /\ duration_iso \in Durations
          /\ video_secs = Idle
          /\ k = 5
    /\ IdleSeo /\ IdleTips /\ IdleAudit /\ IdlePdf /\ IdleLic

\* total_secs = parse_yt_duration_iso8601(duration_iso)
ParseDuration ==
    /\ pc = "parse"
    /\ video_secs' = parse_yt_duration_iso8601(duration_iso)
    /\ pc' = "call"
    /\ UNCHANGED <<duration_iso, curve, k, insights>>
    /\ UNCHANGED <<seoVars, tipsVars, auditVars, pdfVars, licVars>>

TopDropInsights ==
    /\ pc = "call"
    /\ insights' = top_drop_insights(curve, video_secs, k)
    /\ pc' = "return"
    /\ UNCHANGED <<duration_iso, curve, video_secs, k>>
    /\ UNCHANGED <<seoVars, tipsVars, auditVars, pdfVars, licVars>>

NextDrop == ParseDuration \/ TopDropInsights

SpecDrop == InitDrop /\ [][NextDrop]_vars

\* C10: top_drop_insights returns an empty list whenever the retention
\* curve is empty or the video duration is <= 0, for every k.
C10_NoInsightWithoutDuration ==
    pc = "return" /\ (curve = <<>> \/ video_secs <= 0) => insights = <<>>

\* a non-empty curve with a steep drop, k = 5, and a duration string that
\* gives 0 seconds
C10_Witness ==
    /\ pc = "return"
    /\ Len(curve) = 3 /\ curve[3].watch < curve[2].watch
    /\ k = 5
    /\ duration_iso # <<>> /\ video_secs = 0
    /\ insights = <<>>

\* the drop of point i of the curve as the claims state it
DropAt(i) == IF i = 1 THEN 0 ELSE curve[i].watch - curve[i - 1].watch

\* the insight of point i as the claims state it: the second offset, the
\* drop as a percentage that is never negative (tenths of a percent), and
\* the recommendation of the bucket of t
ClaimedInsight(i) ==
    LET t == RoundDiv(curve[i].elapsed * video_secs, 100)
    IN  [pct |-> IF DropAt(i) < 0 THEN -10 * DropAt(i) ELSE 0,
         t   |-> t,
         tip |-> IF t <= 10
                 THEN "open with a stronger hook, quick payoff in 0-10s"
                 ELSE IF t <= 30
                 THEN "tighten intro, cut filler, show the outcome earlier"
                 ELSE IF t <= 60
                 THEN "restate value, add motion/B-roll, remove a dead sentence"
                 ELSE "refresh pacing or add pattern-break (graphic, jump-cut, reveal)"]

\* the sets of points that C11 allows to be reported: as many as k and the
\* curve permit, none left out that has a more negative drop than a
\* reported one or an equal drop and an earlier place
TopDropSets ==
    LET n == Len(curve)
        m == Min2(k, n)
    IN  {S \in SUBSET (1..n) :
            /\ Cardinality(S) = m
            /\ \A i \in S : \A j \in (1..n) \ S :
                  /\ DropAt(j) >= DropAt(i)
                  /\ DropAt(j) = DropAt(i) => i < j}

\* C11: for a non-empty curve and duration > 0, top_drop_insights computes
\* drop[i] = watch_ratio[i] - watch_ratio[i-1] with drop[0] = 0 and reports
\* the k points with the most negative drops: no unreported point has a
\* drop more negative than a reported one, and among equal drops the point
\* earlier in the curve is preferred.
C11_MostNegativeDrops ==
    pc = "return" /\ curve # <<>> /\ video_secs > 0 =>
        /\ Len(insights) = Min2(k, Len(curve))
        /\ \E S \in TopDropSets :
              {insights[r] : r \in 1..Len(insights)}
                  = {ClaimedInsight(i) : i \in S}

\* k = 2 on a curve whose first two points both have drop 0 and whose third
\* falls: the third and the first are reported, the second is not
C11_Witness ==
    /\ pc = "return"
    /\ video_secs = 600 /\ k = 2
    /\ Len(curve) = 3
    /\ DropAt(2) = 0 /\ DropAt(3) < 0
    /\ Len(insights) = 2
    /\ insights[1] = ClaimedInsight(3)
    /\ insights[2] = ClaimedInsight(1)

\* the number of points of the curve whose watch ratio decreased
C25_Decreases == Cardinality({i \in 1..Len(curve) : DropAt(i) < 0})

\* C25: for a non-empty curve and a duration > 0, top_drop_insights
\* returns exactly min(k, number of curve points) insights even when fewer
\* than k points have a negative drop: points whose watch ratio did not
\* decrease (the first point included) are then reported too, with a drop
\* percentage of 0.0, and no reported percentage is negative.
C25_ExactlyKInsights ==
    pc = "return" /\ curve # <<>> /\ video_secs > 0 =>
        /\ Len(insights) = Min2(k, Len(curve))
        /\ \A r \in 1..Len(insights) : insights[r].pct >= 0
        /\ Cardinality({r \in 1..Len(insights) : insights[r].pct > 0})
             = Min2(k, C25_Decreases)

\* a curve that only rises: two insights, both with 0.0 percent
C25_Witness ==
    /\ pc = "return"
    /\ video_secs = 600 /\ k = 2
    /\ Len(curve) = 3
    /\ C25_Decreases = 0
    /\ Len(insights) = 2
    /\ insights[1].pct = 0 /\ insights[2].pct = 0

\* the curve of the example: (0.0, 1.0), (0.05, 0.95), (0.10, 0.40)
ExampleCurve ==
    <<[elapsed |-> 0, watch |-> 100],
      [elapsed |-> 5, watch |-> 95],
      [elapsed |-> 10, watch |-> 40]>>

\* C12: each retention insight reports the second offset
\* t = round(elapsed_ratio * duration) and the drop as a positive
\* percentage, with the recommendation chosen by t (t <= 10 hook,
\* 10 < t <= 30 intro pacing, 30 < t <= 60 restate value, t > 60
\* pattern-break); the example curve with duration 600 and k = 1 yields one
\* insight at 60s in the restate-value bucket with drop 55.0%.
C12_InsightContent ==
    pc = "return" =>
        /\ \A r \in 1..Len(insights) :
              \E i \in 1..Len(curve) : insights[r] = ClaimedInsight(i)
        /\ (curve = ExampleCurve /\ video_secs = 600 /\ k = 1) =>
              insights = <<[pct |-> 550, t |-> 60,
                            tip |-> "restate value, add motion/B-roll, remove a dead sentence"]>>

\* the example, and a second offset that is rounded up across a bucket
\* border: 0.05 * 615 = 30.75 gives t = 31
C12_Witness ==
    /\ pc = "return"
    /\ \/ /\ curve = ExampleCurve /\ video_secs = 600 /\ k = 1
          /\ Len(insights) = 1 /\ insights[1].t = 60
       \/ /\ video_secs = 615 /\ k = 2 /\ Len(curve) = 2
          /\ curve[2].elapsed = 5
          /\ \E r \in 1..2 : insights[r].t = 31

-----------------------------------------------------------------------------
(* Metric derivation: view_velocity, engagement_rates, title_diagnostics   *)
(* A frame is a sequence of rows; a row is a record, one field per column. *)

\* out[col] = value: the columns of new replace or extend those of row
SetCols(row, new) == new @@ row

\* pd.to_datetime(published, utc=True, errors="coerce"): a parseable
\* timestamp gives its instant, anything else NaT
to_datetime(published) ==
    IF published.kind = "ts" THEN Num(published.at) ELSE NaN

\* mutant of Rate: views.replace(0, np.nan) left out and the result filled
\* with 0
Rate_ZeroFilled(count, views) ==
    IF IsNum(count) /\ views # 0
    THEN Num(RoundDiv(count.v * 10000, views))
    ELSE Num(0)

\* count / views * 100 rounded to 2 decimals, in hundredths; views 0 is
\* replaced by NaN, and NaN propagates through the division
Rate(count, views) ==
    IF IsNum(count) /\ views # 0
    THEN Num(RoundDiv(count.v * 10000, views))
    ELSE NaN

engagement_rates(frame) ==
    [i \in 1..Len(frame) |->
        SetCols(frame[i],
                [like_rate    |-> Rate(frame[i].likes, frame[i].views),
                 comment_rate |-> Rate(frame[i].comments, frame[i].views)])]

\* mutant of VelocityOf: the age floored at 1 second instead of 1 minute
VelocityOf_SecondFloor(views, age) ==
    IF IsNum(age) THEN Num(RoundDiv(views * 6000, Max2(1, age.v))) ELSE NaN

\* views / age_min.clip(lower=1), rounded to 2 decimals, in hundredths;
\* age in seconds
VelocityOf(views, age) ==
    IF IsNum(age) THEN Num(RoundDiv(views * 6000, Max2(60, age.v))) ELSE NaN

\* mutant of view_velocity: the parsed instant is written over the
\* published column instead of into a new one
view_velocity_InPlace(frame, now) ==
    [i \in 1..Len(frame) |->
        LET dt  == to_datetime(frame[i].published)
            age == IF IsNum(dt) THEN Num(now - dt.v) ELSE NaN
        IN  SetCols(frame[i],
                    [published     |-> dt,
                     age_min       |-> age,
                     views_per_min |-> VelocityOf(frame[i].views, age)])]

view_velocity(frame, now) ==
    [i \in 1..Len(frame) |->
        LET dt  == to_datetime(frame[i].published)
            age == IF IsNum(dt) THEN Num(now - dt.v) ELSE NaN
        IN  SetCols(frame[i],
                    [published_dt  |-> dt,
                     age_min       |-> age,
                     views_per_min |-> VelocityOf(frame[i].views, age)])]

\* a character of the class [a-z']
IsTokenCh(ch) == ch \in LowerLetters \cup {"'"}

\* the last position of the run of [a-z'] that starts at i (i - 1 if none)
RECURSIVE RunEnd(_, _)
RunEnd(s, i) ==
    IF i <= Len(s) /\ IsTokenCh(s[i]) THEN RunEnd(s, i + 1) ELSE i - 1

\* re.findall(r"[a-z']{3,}", s) scanning from position i
RECURSIVE FindWords(_, _)
FindWords(s, i) ==
    IF i > Len(s) THEN <<>>
    ELSE LET j == RunEnd(s, i)
         IN  IF j - i + 1 >= 3
             THEN <<SubSeq(s, i, j)>> \o FindWords(s, j + 1)
             ELSE FindWords(s, i + 1)

\* pd.Series(words).value_counts().iloc[0]: the count of the most frequent word
PeakCount(words) ==
    LET Count(w) == Cardinality({i \in 1..Len(words) : words[i] = w})
    IN  IF words = <<>> THEN 0
        ELSE CHOOSE c \in 1..Len(words) :
                /\ \E i \in 1..Len(words) : Count(words[i]) = c
                /\ \A i \in 1..Len(words) : Count(words[i]) <= c

\* mutant of dup_pen: the words are not lowercased before matching
dup_pen_CaseSensitive(s) ==
    LET words == FindWords(s, 1)
    IN  IF words = <<>> THEN 0 ELSE Max2(PeakCount(words) - 2, 0)

\* _dup_pen
dup_pen(s) ==
    LET words == FindWords(Lower(s), 1)
    IN  IF words = <<>> THEN 0 ELSE Max2(PeakCount(words) - 2, 0)

\* the frame of diagnostics, indexed like the input
title_diagnostics(frame) ==
    [i \in 1..Len(frame) |->
        LET t == frame[i].title
        IN  [title_len        |-> Len(t),
             title_ok_len     |-> 45 <= Len(t) /\ Len(t) <= 70,
             dup_word_penalty |-> dup_pen(t)]]

\* pd.concat([a, b], axis=1)
concat(a, b) == [i \in 1..Len(a) |-> a[i] @@ b[i]]

-----------------------------------------------------------------------------
(* SpecMetrics: df = engagement_rates(view_velocity(df));                  *)
(* td = title_diagnostics(df); df = pd.concat([df, td], axis=1)            *)

MaxCount == 2
MaxRepeat == 4

Timestamp(t) == [kind |-> "ts", at |-> t]
BadTimestamp == [kind |-> "bad", at |-> 0]

\* n words joined by sep; the odd and the even occurrences may differ in case
RECURSIVE Joined(_, _, _)
Joined(w, sep, n) ==
    IF n = 0 THEN <<>>
    ELSE IF n = 1 THEN w.odd
    ELSE Joined(w, sep, n - 1) \o <<sep>> \o (IF n % 2 = 0 THEN w.even ELSE w.odd)

DiagWords ==
    {[odd |-> <<"w", "i", "n">>, even |-> <<"W", "I", "N">>],
     [odd |-> <<"g", "o">>, even |-> <<"g", "o">>],
     [odd |-> <<"d", "o", "n", "'", "t">>, even |-> <<"D", "o", "n", "'", "t">>]}
TheWord == [odd |-> <<"t", "h", "e">>, even |-> <<"T", "h", "e">>]
WinWord == [odd |-> <<"w", "i", "n">>, even |-> <<"w", "i", "n">>]

DiagTitles ==
    {Joined(w, sep, n) : w \in DiagWords, sep \in {" ", "1"}, n \in 0..MaxRepeat}
    \cup {Joined(WinWord, " ", n1) \o <<" ">> \o Joined(TheWord, " ", n2) :
            n1 \in 1..MaxRepeat, n2 \in 1..MaxRepeat}

MetricViews == {0, 3, 7, 800}
MetricCounts == {NaN} \cup {Num(n) : n \in 0..MaxCount}
MetricPublished ==
    {BadTimestamp} \cup {Timestamp(t) : t \in {0, 5999400, 5999970, 6000030}}

BaseRow ==
    [video_id    |-> "v1",
     title       |-> <<"n", "e", "w", " ", "7">>,
     description |-> <<>>,
     views       |-> 800,
     likes       |-> Num(1),
     comments    |-> Num(0),
     published   |-> Timestamp(0)]

MetricRows ==
    {[BaseRow EXCEPT !.views = vw, !.likes = lk, !.comments = cm] :
        vw \in MetricViews, lk \in MetricCounts, cm \in MetricCounts}
    \cup {[BaseRow EXCEPT !.views = vw, !.published = pb] :
        vw \in MetricViews, pb \in MetricPublished}
    \cup {[BaseRow EXCEPT !.title = t] : t \in DiagTitles}

InitMetrics ==
    /\ pc = "fetched"
    /\ clock = 6000000
    /\ df \in {<<r>> : r \in MetricRows} \cup {<<r, BaseRow>> : r \in MetricRows}
    /\ df_out = Idle
    /\ vids_list = Idle /\ report_tips = Idle /\ cad = Idle
    /\ IdleSeo /\ IdleTips /\ IdleDrop /\ IdlePdf /\ IdleLic

ViewVelocity ==
    /\ pc = "fetched"
    /\ df_out' = view_velocity(df, clock)
    /\ pc' = "velocity"
    /\ UNCHANGED <<clock, df, vids_list, report_tips, cad>>
    /\ UNCHANGED <<seoVars, tipsVars, dropVars, pdfVars, licVars>>

EngagementRates ==
    /\ pc = "velocity"
    /\ df_out' = engagement_rates(df_out)
    /\ pc' = "rates"
    /\ UNCHANGED <<clock, df, vids_list, report_tips, cad>>
    /\ UNCHANGED <<seoVars, tipsVars, dropVars, pdfVars, licVars>>

TitleDiagnostics ==
    /\ pc = "rates"
    /\ df_out' = concat(df_out, title_diagnostics(df_out))
    /\ pc' = "derived"
    /\ UNCHANGED <<clock, df, vids_list, report_tips, cad>>
    /\ UNCHANGED <<seoVars, tipsVars, dropVars, pdfVars, licVars>>

NextMetrics == ViewVelocity \/ EngagementRates \/ TitleDiagnostics

SpecMetrics == InitMetrics /\ [][NextMetrics]_vars

\* seconds from the publish instant of row i to now
Elapsed(i) == clock - df[i].published.at

\* views / age rounded to 2 decimals (in hundredths), the age being
\* max(1, elapsed minutes)
C21_Velocity(i) ==
    df_out[i].views_per_min
        = Num(RoundDiv(df[i].views * 6000,
                       IF Elapsed(i) < 60 THEN 60 ELSE Elapsed(i)))

\* C21: for every video with a known publish instant the attached age in
\* minutes is max(1, minutes from publish to now) and views-per-minute is
\* views divided by that age, rounded to 2 decimals; a video published
\* less than a minute ago or in the future has age 1 and views-per-minute
\* equal to its view count.
C21_AgeFlooredAtOne ==
    pc \in {"velocity", "rates", "derived"} =>
        \A i \in 1..Len(df) :
            df[i].published.kind = "ts" =>
                /\ df_out[i].age_min
                     = Num(IF Elapsed(i) < 60 THEN 60 ELSE Elapsed(i))
                /\ C21_Velocity(i)
                /\ Elapsed(i) < 60 =>
                      df_out[i].views_per_min = Num(df[i].views * 100)

\* what view_velocity attaches: the age as it is, below one minute or
\* negative too, and views-per-minute computed with the age floored at 1
C21_AgeAsElapsed ==
    pc \in {"velocity", "rates", "derived"} =>
        \A i \in 1..Len(df) :
            df[i].published.kind = "ts" =>
                /\ df_out[i].age_min = Num(Elapsed(i))
                /\ C21_Velocity(i)
                /\ Elapsed(i) < 60 =>
                      df_out[i].views_per_min = Num(df[i].views * 100)

\* a video published 30 seconds ago and one published 30 seconds ahead
C21_HalfMinuteOld ==
    /\ pc = "velocity"
    /\ df[1].published = Timestamp(5999970) /\ df[1].views = 7
    /\ df_out[1].age_min = Num(30)
    /\ df_out[1].views_per_min = Num(700)

C21_Future ==
    /\ pc = "velocity"
    /\ df[1].published = Timestamp(6000030)
    /\ df_out[1].age_min = Num(-30)

SourceFields ==
    {"video_id", "title", "description", "views", "likes", "comments",
     "published"}

\* the columns a step adds to the table it is given
Added(given, made) == UNION {DOMAIN made[i] \ DOMAIN given[i] : i \in 1..Len(made)}

\* a step from the table "given" to the table "made" keeps every row and
\* every field that the row had
KeepsFields(given, made) ==
    /\ Len(made) = Len(given)
    /\ \A i \in 1..Len(given) :
          \A f \in DOMAIN given[i] :
             f \in DOMAIN made[i] /\ made[i][f] = given[i][f]

\* C19: attaching derived metrics never mutates source fields:
\* view_velocity and engagement_rates leave their input table unchanged,
\* every source field of every video in their output equals the input
\* value, and only new derived columns are added.
C19_SourceFieldsKept ==
    [][/\ df' = df
       /\ pc = "fetched" =>
             /\ KeepsFields(df, df_out')
             /\ Added(df, df_out')
                  = {"published_dt", "age_min", "views_per_min"}
       /\ pc = "velocity" =>
             /\ KeepsFields(df_out, df_out')
             /\ Added(df_out, df_out') = {"like_rate", "comment_rate"}
       /\ pc # "fetched" =>
             \A i \in 1..Len(df) : \A f \in SourceFields :
                df_out'[i][f] = df[i][f]]_vars

\* both functions have run on a batch of two videos, one of them without a
\* parseable publication time
C19_Witness ==
    /\ pc = "rates"
    /\ Len(df) = 2
    /\ df[1].published = BadTimestamp
    /\ DOMAIN df[1] = SourceFields
    /\ DOMAIN df_out[1] = SourceFields \cup
          {"published_dt", "age_min", "views_per_min", "like_rate",
           "comment_rate"}
    /\ df_out[1].published = BadTimestamp /\ df_out[1].published_dt = NaN
    /\ df_out[2].published_dt = Num(0)

\* view_velocity called again on the frame it was given before, while the
\* wall clock that it reads with datetime.now goes on
MaxTicks == 2

Tick ==
    /\ clock < 6000000 + MaxTicks * 60
    /\ clock' = clock + 60
    /\ UNCHANGED <<pc, df, df_out, vids_list, report_tips, cad>>
    /\ UNCHANGED <<seoVars, tipsVars, dropVars, pdfVars, licVars>>

ViewVelocityAgain ==
    /\ pc = "velocity"
    /\ df_out' = view_velocity(df, clock)
    /\ pc' = "velocity"
    /\ UNCHANGED <<clock, df, vids_list, report_tips, cad>>
    /\ UNCHANGED <<seoVars, tipsVars, dropVars, pdfVars, licVars>>

NextRerun == ViewVelocity \/ Tick \/ ViewVelocityAgain

SpecRerun == InitMetrics /\ [][NextRerun]_vars

\* C18: every core function is deterministic in its arguments and none
\* reads the wall clock except through an injected "now": view_velocity
\* run twice on the same frame gives field-for-field the same output.
C18_SameFrameSameOutput ==
    [][(pc = "velocity" /\ pc' = "velocity" /\ df' = df)
         => df_out' = df_out]_vars

\* two runs on the same frame differ only when the clock has gone on in
\* between: the age of some video has grown
C18_SameClockSameOutput ==
    [][(pc = "velocity" /\ pc' = "velocity" /\ df' = df
          /\ df_out' # df_out)
         => \E i \in 1..Len(df) :
               /\ IsNum(df_out[i].age_min)
               /\ df_out'[i].age_min.v > df_out[i].age_min.v]_vars

-----------------------------------------------------------------------------
(* Claims on metric derivation (checked under SpecMetrics)                 *)

\* r (hundredths) is count / views * 100 rounded to 2 decimals
IsRounded(r, count, views) ==
    2 * Abs(r * views - 10000 * count) <= views

RateClaim(rate, count, views) ==
    IF views > 0 /\ IsNum(count)
    THEN IsNum(rate) /\ IsRounded(rate.v, count.v, views)
    ELSE IsNaN(rate)

\* C5: engagement_rates yields, per video, like rate = likes/views*100 and
\* comment rate = comments/views*100 rounded to 2 decimals when views > 0
\* and the count is known; the rate is unknown (never 0, never an
\* exception) whenever views = 0 or the count is unknown.
C5_RatesOrUnknown ==
    pc \in {"rates", "derived"} =>
        /\ Len(df_out) = Len(df)
        /\ \A i \in 1..Len(df) :
              /\ RateClaim(df_out[i].like_rate, df[i].likes, df[i].views)
              /\ RateClaim(df_out[i].comment_rate, df[i].comments, df[i].views)

\* a video with views = 0 and known counts beside one with a known rate
C5_Witness ==
    /\ pc = "rates"
    /\ Len(df) = 2
    /\ df[1].views = 0 /\ df[1].likes = Num(2) /\ df[1].comments = Num(1)
    /\ IsNaN(df_out[1].like_rate) /\ IsNaN(df_out[1].comment_rate)
    /\ df_out[2].like_rate = Num(12)

\* the words of a title: the maximal runs of letters and apostrophes of the
\* lowercased title that are at least 3 long, by their start position
WordStarts(s) ==
    {i \in 1..Len(s) :
        /\ IsTokenCh(s[i])
        /\ i = 1 \/ ~IsTokenCh(s[i - 1])
        /\ i + 2 <= Len(s) /\ IsTokenCh(s[i + 1]) /\ IsTokenCh(s[i + 2])}
WordEnd(s, i) ==
    CHOOSE j \in i..Len(s) :
        /\ \A m \in i..j : IsTokenCh(s[m])
        /\ j = Len(s) \/ ~IsTokenCh(s[j + 1])
WordAt(s, i) == SubSeq(s, i, WordEnd(s, i))
\* how often the word starting at i occurs in s
Occurrences(s, i) ==
    Cardinality({j \in WordStarts(s) : WordAt(s, j) = WordAt(s, i)})

DupPenaltyClaim(t, pen) ==
    LET s == Lower(t)
    IN  IF \A i \in WordStarts(s) : Occurrences(s, i) <= 2
        THEN pen = 0
        ELSE /\ \E i \in WordStarts(s) : pen = Occurrences(s, i) - 2
             /\ \A i \in WordStarts(s) : pen >= Occurrences(s, i) - 2

\* C6: title_diagnostics assigns dup_word_penalty = 0 to every title in
\* which no word is repeated more than twice, and n-2 to every title whose
\* most frequent word appears n > 2 times (words are the tokens of at least
\* 3 letters or apostrophes, compared case-insensitively, no stopword
\* filtering).
C6_DupWordPenalty ==
    pc = "derived" =>
        \A i \in 1..Len(df) :
            DupPenaltyClaim(df[i].title, df_out[i].dup_word_penalty)

\* "win WIN win WIN": one word four times, in two spellings
C6_Witness ==
    /\ pc = "derived"
    /\ df[1].title = Joined([odd |-> <<"w", "i", "n">>, even |-> <<"W", "I", "N">>], " ", 4)
    /\ df_out[1].dup_word_penalty = 2

-----------------------------------------------------------------------------
(* Audit tab: the SEO loop, health_100, vids_list; build_elite_pdf's tips  *)

RECURSIVE SumTo(_, _)
\* f[1] + ... + f[n]
SumTo(f, n) == IF n = 0 THEN 0 ELSE f[n] + SumTo(f, n - 1)

\* the SEO loop: seo_score_row on every row, with float(rate or 0.0)
SeoLoop(frame) ==
    [i \in 1..Len(frame) |->
        seo_score_row(frame[i].title, frame[i].description,
                      OrZero(frame[i].like_rate),
                      OrZero(frame[i].comment_rate),
                      frame[i].dup_word_penalty)]

\* the batch statistics of views_per_min over the rows where it is known:
\* their number n, their sum s and the sum q of their squares.
\* n * q - s * s is n * n times the population variance.
VpmStats(frame) ==
    LET x(i) == IF IsNum(frame[i].views_per_min)
                THEN frame[i].views_per_min.v ELSE 0
        c(i) == IF IsNum(frame[i].views_per_min) THEN 1 ELSE 0
    IN  [n |-> SumTo([i \in 1..Len(frame) |-> c(i)], Len(frame)),
         s |-> SumTo([i \in 1..Len(frame) |-> x(i)], Len(frame)),
         q |-> SumTo([i \in 1..Len(frame) |-> x(i) * x(i)], Len(frame))]

\* vpm_z of each of n identical velocities x (hundredths) as IEEE double
\* arithmetic gives it. mean() and std(ddof=0) divide a sum accumulated in
\* the order of the rows; for n identical values that mean can differ from
\* the value in its last bit, std is then the size of that difference
\* instead of 0, the test std == 0 fails and every z is -1.0 or 1.0.
\* Listed for the velocities of this model (0.0 and 0.1), n up to 7:
\* 0.1 + 0.1 + 0.1 = 0.30000000000000004, / 3 = 0.10000000000000002.
IdenticalZ(x, n) ==
    CASE x = 0 -> 0
      [] x = 10 /\ n \in {1, 2, 4, 5} -> 0
      [] x = 10 /\ n = 3 -> -1
      [] x = 10 /\ n \in {6, 7} -> 1

\* vpm_z of a row as the pair (num, den2) that stands for num / sqrt(den2):
\* 0 when std is 0 or NaN, and for a row whose views_per_min is NaN
VpmZ(frame, i) ==
    LET st == VpmStats(frame)
        d  == st.n * st.q - st.s * st.s
    IN  IF st.n = 0 \/ ~IsNum(frame[i].views_per_min)
        THEN [num |-> 0, den2 |-> 1]
        ELSE IF d = 0
        THEN [num |-> IdenticalZ(frame[i].views_per_min.v, st.n), den2 |-> 1]
        ELSE [num |-> st.n * frame[i].views_per_min.v - st.s, den2 |-> d]

\* the integer square root of y, between lo and hi
RECURSIVE IsqrtIn(_, _, _)
IsqrtIn(y, lo, hi) ==
    IF lo = hi THEN lo
    ELSE LET mid == (lo + hi + 1) \div 2
         IN  IF mid * mid <= y THEN IsqrtIn(y, mid, hi)
             ELSE IsqrtIn(y, lo, mid - 1)

\* 1200 * clip(z, -2, 3) for z = num / sqrt(den2): its floor, and whether
\* the value is that integer exactly
ZTerm(z) ==
    LET a  == Abs(z.num)
        x  == 1440000 * a * a
        y  == x \div z.den2
        m  == IsqrtIn(y, 0, 3600)
        ex == y * z.den2 = x /\ m * m = y
    IN  IF z.num >= 0 /\ z.num * z.num >= 9 * z.den2
        THEN [floor |-> 3600, exact |-> TRUE]
        ELSE IF z.num < 0 /\ z.num * z.num >= 4 * z.den2
        THEN [floor |-> -2400, exact |-> TRUE]
        ELSE IF z.num >= 0 THEN [floor |-> m, exact |-> ex]
        ELSE [floor |-> IF ex THEN -m ELSE -m - 1, exact |-> ex]

Clip(x, lo, hi) == Max2(lo, Min2(hi, x))

\* mutant of Health100: the final .clip(0, 100) left out
Health100_NoClip(z, lrate, dup, ok_len) ==
    LET zt == ZTerm(z)
        lr == IF IsNum(lrate) THEN lrate.v ELSE 0
        t  == zt.floor + 2400 + 4 * Clip(lr, 0, 500)
              - 300 * Clip(dup, 0, 3) + (IF ok_len THEN 500 ELSE 0)
    IN  IF zt.exact THEN RoundDiv(t, 10)
        ELSE (t \div 10) + (IF t % 10 >= 5 THEN 1 ELSE 0)

\* health_100 of a row, in tenths:
\* ((clip(z,-2,3)+2)/5*60 + clip(fillna(like_rate,0),0,5)*4
\*  - clip(dup,0,3)*3 + ok_len*5).round(1).clip(0, 100)
\* t is the floor of the sum in hundredths
Health100(z, lrate, dup, ok_len) ==
    LET zt == ZTerm(z)
        lr == IF IsNum(lrate) THEN lrate.v ELSE 0
        t  == zt.floor + 2400 + 4 * Clip(lr, 0, 500)
              - 300 * Clip(dup, 0, 3) + (IF ok_len THEN 500 ELSE 0)
        r  == IF zt.exact THEN RoundDiv(t, 10)
              ELSE (t \div 10) + (IF t % 10 >= 5 THEN 1 ELSE 0)
    IN  Clip(r, 0, 1000)

\* the frame with vpm_z and health_100 attached
WithHealth(frame) ==
    [i \in 1..Len(frame) |->
        LET z == VpmZ(frame, i)
        IN  SetCols(frame[i],
                    [vpm_z      |-> z,
                     health_100 |-> Health100(z, frame[i].like_rate,
                                              frame[i].dup_word_penalty,
                                              frame[i].title_ok_len)])]

\* one record of vids_list: int(r.get(...) or 0) of comments, likes, views
\* and seo_score (upload_date, a slice of the published text, is left out)
VidsRecord(row) ==
    LET comments == IntOrZero(row.comments)
        likes    == IntOrZero(row.likes)
    IN  IF comments.raised \/ likes.raised THEN Raised
        ELSE [raised |-> FALSE,
              rec |-> [title       |-> row.title,
                       description |-> row.description,
                       comments    |-> Num(comments.n),
                       likes       |-> Num(likes.n),
                       views       |-> Num(row.views),
                       seo_score   |-> row.seo_score]]

\* int(pd.Series(xs).median()) of a non-empty sequence of integers >= 0
MedianInt(xs) ==
    LET n == Len(xs)
        Kth(kk) == CHOOSE x \in {xs[i] : i \in 1..n} :
                      /\ Cardinality({i \in 1..n : xs[i] < x}) < kk
                      /\ Cardinality({i \in 1..n : xs[i] <= x}) >= kk
    IN  IF n % 2 = 1 THEN Kth((n + 1) \div 2)
        ELSE (Kth(n \div 2) + Kth(n \div 2 + 1)) \div 2

-----------------------------------------------------------------------------
(* SpecAudit: "Run Audit" on a fetched batch, step by step, then           *)
(* "Generate Elite PDF"                                                    *)

MaxBatch == 3

GoodTitle == MakeText(<<"n", "e", "w", " ", "7", " ">>, 58, "x")
DupTitle == Joined(WinWord, " ", 5)

\* (likes, comments) as the API gives them: either count may be absent
AuditCounts ==
    {[likes |-> NaN, comments |-> Num(5)],
     [likes |-> Num(200), comments |-> NaN],
     [likes |-> Num(30), comments |-> Num(5)]}

AuditRows ==
    {[video_id    |-> "v1",
      title       |-> t,
      description |-> <<>>,
      views       |-> vw,
      likes       |-> c.likes,
      comments    |-> c.comments,
      published   |-> pb] :
        t \in {GoodTitle, DupTitle}, vw \in {0, 3000},
        c \in AuditCounts, pb \in {BadTimestamp, Timestamp(4200000)}}

\* fetch_video_stats returns the rows sorted by views, descending
\* and larger batches of videos that are all alike
MaxIdentical == 6

Batches ==
    UNION {
        {b \in [1..n -> AuditRows] :
            \A i \in 1..(n - 1) : b[i].views >= b[i + 1].views}
        : n \in 1..MaxBatch}
    \cup {[i \in 1..n |-> r] : r \in AuditRows, n \in 4..MaxIdentical}

InitAudit ==
    /\ pc = "fetched"
    /\ clock = 6000000
    /\ df \in Batches
    /\ df_out = Idle
    /\ vids_list = Idle
    /\ report_tips = Idle
    /\ cad = Idle
    /\ IdleSeo /\ IdleTips /\ IdleDrop /\ IdlePdf /\ IdleLic

\* the SEO loop; an exception ends the run
SeoScoring ==
    /\ pc = "derived"
    /\ LET scores == SeoLoop(df_out)
       IN  IF \E i \in 1..Len(df_out) : scores[i].raised
           THEN pc' = "aborted" /\ UNCHANGED df_out
           ELSE /\ pc' = "scored"
                /\ df_out' = [i \in 1..Len(df_out) |->
                                SetCols(df_out[i],
                                        [seo_score |-> scores[i].score,
                                         seo_notes |-> scores[i].notes])]
    /\ UNCHANGED <<clock, df, vids_list, report_tips, cad>>
    /\ UNCHANGED <<seoVars, tipsVars, dropVars, pdfVars, licVars>>

\* vpm_z and health_100; the table is displayed after this step
HealthScoring ==
    /\ pc = "scored"
    /\ df_out' = WithHealth(df_out)
    /\ pc' = "health"
    /\ UNCHANGED <<clock, df, vids_list, report_tips, cad>>
    /\ UNCHANGED <<seoVars, tipsVars, dropVars, pdfVars, licVars>>

\* vids_list and st.session_state["videos"]; an exception ends the run and
\* leaves the session without videos. The averages, cadence_stats and the
\* displays between the health step and this one change none of these
\* variables.
BuildVidsList ==
    /\ pc = "health"
    /\ LET recs == [i \in 1..Len(df_out) |-> VidsRecord(df_out[i])]
       IN  IF \E i \in 1..Len(df_out) : recs[i].raised
           THEN pc' = "aborted" /\ UNCHANGED vids_list
           ELSE /\ pc' = "audited"
                /\ vids_list' = [i \in 1..Len(df_out) |-> recs[i].rec]
    /\ UNCHANGED <<clock, df, df_out, report_tips, cad>>
    /\ UNCHANGED <<seoVars, tipsVars, dropVars, pdfVars, licVars>>

\* the "Generate Elite PDF" button: build_elite_pdf's SPECIFIC IMPROVEMENTS
GeneratePdf ==
    /\ pc = "audited"
    /\ vids_list # <<>>
    /\ LET med == MedianInt([i \in 1..Len(vids_list) |->
                                IntOrZero(vids_list[i].views).n])
           res == [i \in 1..Len(vids_list) |->
                      improvements_for_video(vids_list[i], med)]
       IN  IF \E i \in 1..Len(vids_list) : res[i].raised
           THEN pc' = "aborted" /\ UNCHANGED report_tips
           ELSE /\ pc' = "reported"
                /\ report_tips' = [i \in 1..Len(vids_list) |-> res[i].tips]
    /\ UNCHANGED <<clock, df, df_out, vids_list, cad>>
    /\ UNCHANGED <<seoVars, tipsVars, dropVars, pdfVars, licVars>>

\* "Run Audit" runs the steps in this order, then the PDF may be generated
NextAudit ==
    \/ ViewVelocity
    \/ EngagementRates
    \/ TitleDiagnostics
    \/ SeoScoring
    \/ HealthScoring
    \/ BuildVidsList
    \/ GeneratePdf

SpecAudit == InitAudit /\ [][NextAudit]_vars

-----------------------------------------------------------------------------
(* Claims about the audit run                                              *)

HasHealth(row) == "health_100" \in DOMAIN row

\* C2: for every audited batch (any batch size, any views-per-minute
\* values including unknown, any like rate including unknown, any
\* duplicate penalty, any title-length flag), every video's health_100
\* satisfies 0 <= health_100 <= 100 (here in tenths: 0..1000).
C2_HealthInRange ==
    pc \in {"health", "audited", "reported", "aborted"} =>
        \A i \in 1..Len(df_out) :
            HasHealth(df_out[i]) =>
                /\ df_out[i].health_100 >= 0
                /\ df_out[i].health_100 <= 1000

\* a batch of three where one video sits below the others in velocity, has
\* an unknown like rate, a thrice-penalised title of the wrong length: the
\* sum before the clamp is negative and health_100 is 0; another video of
\* the batch has a health above 50
C2_Witness ==
    /\ pc = "health"
    /\ Len(df_out) = 3
    /\ \E i \in 1..3 :
          /\ IsNaN(df_out[i].like_rate)
          /\ df_out[i].dup_word_penalty = 3
          /\ ~df_out[i].title_ok_len
          /\ Health100_NoClip(df_out[i].vpm_z, df_out[i].like_rate,
                              df_out[i].dup_word_penalty,
                              df_out[i].title_ok_len) < 0
          /\ df_out[i].health_100 = 0
    /\ \E j \in 1..3 : df_out[j].health_100 > 500

\* C7: an audit run never aborts with an exception because of missing
\* data: for every batch in which some video has an unknown like count, an
\* unknown comment count, views = 0 or an unparseable publish timestamp,
\* the run proceeds through metric derivation, scoring, construction of the
\* per-video records and tip generation to completion.
C7_NeverAborts == pc # "aborted"

\* the run that does abort: every count of the batch but one is known
C7_AbortsOnUnknownCount ==
    /\ pc = "aborted"
    /\ \E i \in 1..Len(df) : IsNaN(df[i].comments) \/ IsNaN(df[i].likes)

\* what missing data does not abort: views = 0 and an unparseable
\* timestamp with both counts known run to the report
C7_CompletesWithKnownCounts ==
    (\A i \in 1..Len(df) : IsNum(df[i].comments) /\ IsNum(df[i].likes))
        => pc # "aborted"

\* the batch z-score of C16: (x - mean) / population standard deviation of
\* the known velocities, and 0 when that deviation is 0 or undefined or the
\* velocity of the row is unknown
C16_Z(i) ==
    LET st == VpmStats(df_out)
        d  == st.n * st.q - st.s * st.s
    IN  IF st.n = 0 \/ d = 0 \/ ~IsNum(df_out[i].views_per_min)
        THEN [num |-> 0, den2 |-> 1]
        ELSE [num |-> st.n * df_out[i].views_per_min.v - st.s, den2 |-> d]

\* the known velocities of the batch are three or more and all the same
IdenticalVelocities ==
    LET st == VpmStats(df_out)
    IN  st.n >= 3 /\ st.n * st.q - st.s * st.s = 0

\* C16: per-video health equals clamp_0_100 of (clip(z,-2,3)+2)/5*60 +
\* clip(like_rate,0,5)*4 - clip(dup_penalty,0,3)*3 + (5 if title length is
\* 45..70 else 0), rounded to 1 decimal, where z is the batch z-score of
\* views-per-minute using population standard deviation, and z = 0 for
\* every video when that standard deviation is 0 or undefined
\* (single-video batch, identical velocities, all velocities unknown).
C16_HealthFormula ==
    pc = "health" =>
        \A i \in 1..Len(df_out) :
            df_out[i].health_100 =
                Health100(C16_Z(i), df_out[i].like_rate,
                          df_out[i].dup_word_penalty, df_out[i].title_ok_len)

\* the formula does hold for every batch whose known velocities are not
\* three or more identical values
C16_HoldsUnlessIdentical ==
    pc = "health" /\ ~IdenticalVelocities =>
        \A i \in 1..Len(df_out) :
            df_out[i].health_100 =
                Health100(C16_Z(i), df_out[i].like_rate,
                          df_out[i].dup_word_penalty, df_out[i].title_ok_len)

\* three videos of velocity 0.1, like rate 6.67, good title: z is -1.0 for
\* each and health_100 is 37.0 where the formula with z = 0 gives 49.0
C16_IdenticalVelocitiesShifted ==
    /\ pc = "health"
    /\ Len(df_out) = 3
    /\ \A i \in 1..3 :
          /\ df_out[i].views_per_min = Num(10)
          /\ df_out[i].like_rate = Num(667)
          /\ df_out[i].title_ok_len /\ df_out[i].dup_word_penalty = 0
          /\ df_out[i].vpm_z = [num |-> -1, den2 |-> 1]
          /\ df_out[i].health_100 = 370

\* the known velocities of the batch have zero variance
C26_ZeroVariance ==
    LET st == VpmStats(df_out)
    IN  st.n >= 1 /\ st.n * st.q - st.s * st.s = 0

\* C26: for every batch the per-video health score never exceeds 85 (60
\* from velocity + 20 from like rate + 5 from title length), and in a
\* batch with zero velocity variance every video's health is at most 49
\* (24 + 20 + 5).
C26_HealthCeilings ==
    pc = "health" =>
        \A i \in 1..Len(df_out) :
            /\ df_out[i].health_100 <= 850
            /\ C26_ZeroVariance => df_out[i].health_100 <= 490

\* the ceiling of 85 does hold for every batch
C26_AtMost85 ==
    pc = "health" => \A i \in 1..Len(df_out) : df_out[i].health_100 <= 850

\* six videos of velocity 0.1, like rate 6.67, good title: z is 1.0 for
\* each and health_100 is 61.0
C26_SixIdentical ==
    /\ pc = "health"
    /\ Len(df_out) = 6
    /\ C26_ZeroVariance
    /\ \A i \in 1..6 : /\ df_out[i].views_per_min = Num(10)
                       /\ df_out[i].vpm_z = [num |-> 1, den2 |-> 1]
                       /\ df_out[i].health_100 = 610

-----------------------------------------------------------------------------
(* cadence_stats                                                           *)
(* Instants are seconds since 1970-01-01T00:00:00Z, gaps are in seconds;  *)
(* uploads_week and median_gap_days are in hundredths. The arithmetic is  *)
(* exact: where binary floating point lands just below a whole number the *)
(* code's int() gives one less than this model.                           *)

Inf == [kind |-> "inf", v |-> 0]
NA == [kind |-> "na", v |-> 0]

DaySecs == 86400

RECURSIVE GCD(_, _)
GCD(a, b) == IF b = 0 THEN a ELSE GCD(b, a % b)

RECURSIVE Insert(_, _)
Insert(x, s) ==
    IF s = <<>> THEN <<x>>
    ELSE IF x <= Head(s) THEN <<x>> \o s
    ELSE <<Head(s)>> \o Insert(x, Tail(s))

RECURSIVE SortAsc(_)
SortAsc(s) == IF s = <<>> THEN <<>> ELSE Insert(Head(s), SortAsc(Tail(s)))

\* mutant of ParsedSorted: dropna() left out, NaT kept as instant 0
ParsedSorted_KeepNaT(frame) ==
    SortAsc([i \in 1..Len(frame) |->
                IF IsNum(to_datetime(frame[i].published))
                THEN to_datetime(frame[i].published).v ELSE 0])

\* d = pd.to_datetime(df["published"], utc=True, errors="coerce")
\*         .sort_values().dropna()
ParsedSorted(frame) ==
    LET ok == SelectSeq(frame, LAMBDA r : IsNum(to_datetime(r.published)))
    IN  SortAsc([i \in 1..Len(ok) |-> to_datetime(ok[i].published).v])

\* d.diff() without its leading NaN
Gaps(d) == [i \in 1..(Len(d) - 1) |-> d[i + 1] - d[i]]

\* twice gaps.median() of a non-empty sequence of gaps
Median2(gaps) ==
    LET srt == SortAsc(gaps)
        n   == Len(srt)
    IN  IF n % 2 = 1 THEN 2 * srt[(n + 1) \div 2]
        ELSE srt[n \div 2] + srt[n \div 2 + 1]

\* round(7.0 / gaps.median(), 2) if gaps.notna().any() else 0.0; the
\* median is a numpy float, so a median of 0 gives inf
UploadsWeek(gaps) ==
    IF gaps = <<>> THEN Num(0)
    ELSE IF Median2(gaps) = 0 THEN Inf
    ELSE Num(RoundDiv(7 * DaySecs * 2 * 100, Median2(gaps)))

\* round(gaps.median(), 2), NaN when there is no gap
MedianGapDays(gaps) ==
    IF gaps = <<>> THEN NaN
    ELSE Num(RoundDiv(Median2(gaps) * 100, 2 * DaySecs))

HourOf(t) == (t \div 3600) % 24

\* day_name(): 1970-01-01 was a Thursday
DayNames ==
    <<"Monday", "Tuesday", "Wednesday", "Thursday", "Friday", "Saturday",
      "Sunday">>
DayOf(t) == DayNames[(((t \div DaySecs) + 3) % 7) + 1]

\* Series.mode() lists the most frequent values sorted; iloc[0] is the
\* first of them
AlphaDays ==
    <<"Friday", "Monday", "Saturday", "Sunday", "Thursday", "Tuesday",
      "Wednesday">>

BestDay(d) ==
    LET cnt(a) == Cardinality({i \in 1..Len(d) : DayOf(d[i]) = AlphaDays[a]})
        best   == CHOOSE a \in 1..7 :
                     /\ \A b \in 1..7 : cnt(b) <= cnt(a)
                     /\ \A b \in 1..(a - 1) : cnt(b) < cnt(a)
    IN  AlphaDays[best]

BestHour(d) ==
    LET cnt(h) == Cardinality({i \in 1..Len(d) : HourOf(d[i]) = h})
    IN  CHOOSE h \in 0..23 :
            /\ \A g \in 0..23 : cnt(g) <= cnt(h)
            /\ \A g \in 0..(h - 1) : cnt(g) < cnt(h)

\* mutant of GapStd2: the default 5.0 whatever the number of gaps
GapStd2_AlwaysDefault(gaps) == [n |-> 25, d |-> 1]

\* mutant of GapStd2: the default 5.0 also for exactly two gaps
GapStd2_ThreeGaps(gaps) ==
    IF Len(gaps) < 3 THEN [n |-> 25, d |-> 1] ELSE [n |-> 0, d |-> 1]

\* the square of the gap standard deviation used for the stability term, in
\* days squared, as a fraction n / d:
\*   var = gaps.std() if gaps.notna().sum() >= 2 else 5.0
\* gaps.std() is the sample standard deviation (ddof = 1). With u the
\* greatest common divisor of the gaps and r the gaps divided by u,
\* std(gaps) = u * std(r), and (n - 1) * n^2 * var(r) = sum (n r_i - S)^2.
GapStd2(gaps) ==
    LET n == Len(gaps)
        allU == IF n = 0 THEN 0
                ELSE LET F[i \in 1..n] ==
                           IF i = 1 THEN gaps[1] ELSE GCD(F[i - 1], gaps[i])
                     IN  F[n]
    IN  IF n < 2 THEN [n |-> 25, d |-> 1]
        ELSE IF allU = 0 THEN [n |-> 0, d |-> 1]
        ELSE LET r(i) == gaps[i] \div allU
                 S    == SumTo([i \in 1..n |-> r(i)], n)
                 D    == SumTo([i \in 1..n |-> (n * r(i) - S) * (n * r(i) - S)], n)
                 c    == GCD(allU, DaySecs)
                 p    == allU \div c
                 q    == DaySecs \div c
                 num  == p * p * D
                 den  == q * q * n * n * (n - 1)
                 e    == GCD(num, den)
             IN  [n |-> num \div e, d |-> den \div e]

\* freq = min(1.0, uploads_week / 3.0), as hundredths of uploads_week
\* capped at 300
FreqCap(uw) == IF uw = Inf THEN 300 ELSE Min2(uw.v, 300)

\* a / b <= c / d for a, c >= 0 and b, d > 0, by comparing the whole parts
\* and then the reciprocals of the remainders (no product is formed)
RECURSIVE FracLe(_, _, _, _)
FracLe(a, b, c, d) ==
    IF a \div b < c \div d THEN TRUE
    ELSE IF a \div b > c \div d THEN FALSE
    ELSE IF a % b = 0 THEN TRUE
    ELSE IF c % d = 0 THEN FALSE
    ELSE FracLe(d, c % d, b, a % b)

\* whether (0.7 * freq + 0.3 * (1 / (1 + var))) * 100 >= h / 2, for the
\* capped uploads_week um and the squared deviation s2: with
\* x = 30 h - 14 um this is 1800 / (1 + var) >= x, that is
\* var^2 <= ((1800 - x) / x)^2 when x > 0
ValueGe(um, s2, h) ==
    LET x == 30 * h - 14 * um
    IN  \/ x <= 0
        \/ /\ x <= 1800
           /\ FracLe(s2.n, s2.d, (1800 - x) * (1800 - x), x * x)

\* the same with > in place of >=
ValueGt(um, s2, h) ==
    LET x == 30 * h - 14 * um
    IN  \/ x <= 0
        \/ /\ x < 1800
           /\ ~FracLe((1800 - x) * (1800 - x), x * x, s2.n, s2.d)

\* cons = int((0.7 * freq + 0.3 * (1 / (1 + var))) * 100): int() truncates
Consistency(um, s2) ==
    CHOOSE c \in 0..100 : ValueGe(um, s2, 2 * c) /\ ~ValueGe(um, s2, 2 * c + 2)

CadenceDefault ==
    [uploads_week    |-> Num(0),
     median_gap_days |-> NaN,
     best_day        |-> "N/A",
     best_hour_utc   |-> NA,
     consistency_100 |-> 0]

cadence_stats(frame) ==
    LET d == ParsedSorted(frame)
    IN  IF d = <<>> THEN CadenceDefault
        ELSE LET gaps == Gaps(d)
                 uw   == UploadsWeek(gaps)
             IN  [uploads_week    |-> uw,
                  median_gap_days |-> MedianGapDays(gaps),
                  best_day        |-> BestDay(d),
                  best_hour_utc   |-> Num(BestHour(d)),
                  consistency_100 |-> Consistency(FreqCap(uw), GapStd2(gaps))]

-----------------------------------------------------------------------------
(* SpecCadence: cadence_stats called on the published column of a batch    *)

MaxStamps == 3
MaxEqual == 6

HourSecs == 3600

\* published values: one that does not parse, and instants some of which
\* share a day, an hour of the day or the very second
CadencePublished ==
    {BadTimestamp} \cup
    {Timestamp(t) : t \in {0, DaySecs, DaySecs + HourSecs, 4 * DaySecs,
                           8 * DaySecs + 2 * HourSecs}}

PublishedRow(p) == [BaseRow EXCEPT !.published = p]

\* equally spaced uploads, newest first as the API lists them
EqualGaps == {8 * HourSecs, DaySecs, 4 * DaySecs, 7 * DaySecs}
EquallySpaced(g, n) == [i \in 1..n |-> PublishedRow(Timestamp((n - i) * g))]

CadenceFrames ==
    UNION {[1..n -> {PublishedRow(p) : p \in CadencePublished}] : n \in 0..MaxStamps}
    \cup {EquallySpaced(g, n) : g \in EqualGaps, n \in 3..MaxEqual}

InitCadence ==
    /\ pc = "fetched"
    /\ clock = 6000000
    /\ df \in CadenceFrames
    /\ df_out = Idle
    /\ vids_list = Idle /\ report_tips = Idle /\ cad = Idle
    /\ IdleSeo /\ IdleTips /\ IdleDrop /\ IdlePdf /\ IdleLic

\* cad = cadence_stats(df)
CadenceStats ==
    /\ pc = "fetched"
    /\ cad' = cadence_stats(df)
    /\ pc' = "cadence"
    /\ UNCHANGED <<clock, df, df_out, vids_list, report_tips>>
    /\ UNCHANGED <<seoVars, tipsVars, dropVars, pdfVars, licVars>>

NextCadence == CadenceStats

SpecCadence == InitCadence /\ [][NextCadence]_vars

-----------------------------------------------------------------------------
(* Claims on cadence_stats (checked under SpecCadence)                     *)

Parseable(p) == p.kind = "ts"
ParseableRows == SelectSeq(df, LAMBDA r : Parseable(r.published))

\* C13: cadence_stats drops unparseable publish timestamps and, when none
\* remain, returns the default uploads_week = 0, median_gap_days =
\* undefined, best_day = "N/A", best_hour_utc = "N/A", consistency_100 = 0
\* without raising.
C13_DefaultWithoutTimestamps ==
    pc = "cadence" =>
        /\ cad = cadence_stats(ParseableRows)
        /\ ParseableRows = <<>> =>
              /\ cad.uploads_week = Num(0)
              /\ IsNaN(cad.median_gap_days)
              /\ cad.best_day = "N/A"
              /\ cad.best_hour_utc = NA
              /\ cad.consistency_100 = 0

\* a batch of three unparseable timestamps gets the default
C13_Witness ==
    /\ pc = "cadence"
    /\ Len(df) = 3
    /\ \A i \in 1..3 : ~Parseable(df[i].published)
    /\ cad.best_day = "N/A" /\ cad.consistency_100 = 0

\* the inputs of the consistency score as C14 names them: uploads_week as
\* returned, and the gap standard deviation of the parseable timestamps
C14_Freq == FreqCap(cad.uploads_week)
C14_Std2 == GapStd2(Gaps(ParsedSorted(df)))

\* C14: for every non-empty set of parseable timestamps, cadence_stats'
\* consistency score equals round(100 * (0.7*min(1, uploads_week/3) +
\* 0.3*(1/(1+gap_stddev)))), the weighted value rounded to the nearest
\* integer, and lies in 0..100.
C14_RoundedConsistency ==
    pc = "cadence" /\ ParseableRows # <<>> =>
        /\ cad.consistency_100 \in 0..100
        /\ ValueGe(C14_Freq, C14_Std2, 2 * cad.consistency_100 - 1)
        /\ ~ValueGt(C14_Freq, C14_Std2, 2 * cad.consistency_100 + 1)

\* what the code gives instead: the weighted value truncated, in 0..100
C14_TruncatedConsistency ==
    pc = "cadence" /\ ParseableRows # <<>> =>
        /\ cad.consistency_100 \in 0..100
        /\ ValueGe(C14_Freq, C14_Std2, 2 * cad.consistency_100)
        /\ ~ValueGe(C14_Freq, C14_Std2, 2 * cad.consistency_100 + 2)

\* three uploads four days apart: the value is 70.83 and the score is 70
C14_Truncates ==
    /\ pc = "cadence"
    /\ df = EquallySpaced(4 * DaySecs, 3)
    /\ cad.consistency_100 = 70

\* C27: for every non-empty set of parseable publish timestamps, sets
\* where two or more videos share the same instant (median gap 0)
\* included, cadence_stats returns without raising and uploads_week is a
\* finite number >= 0.
C27_FiniteUploadsWeek ==
    pc = "cadence" /\ ParseableRows # <<>> =>
        /\ cad # Idle
        /\ IsNum(cad.uploads_week)
        /\ cad.uploads_week.v >= 0

\* uploads_week is finite and >= 0 unless the median gap is 0, and then it
\* is infinite
C27_InfiniteOnlyAtMedianZero ==
    pc = "cadence" /\ ParseableRows # <<>> =>
        LET gaps == Gaps(ParsedSorted(df))
        IN  IF gaps # <<>> /\ Median2(gaps) = 0
            THEN cad.uploads_week = Inf
            ELSE IsNum(cad.uploads_week) /\ cad.uploads_week.v >= 0

\* two videos published at the same instant: uploads_week is inf
C27_SameInstant ==
    /\ pc = "cadence"
    /\ Len(df) = 2
    /\ Parseable(df[1].published) /\ df[2].published = df[1].published
    /\ cad.uploads_week = Inf
    /\ cad.median_gap_days = Num(0)
    /\ cad.consistency_100 = 75

\* the square of the sample standard deviation of the gaps, in days
\* squared, from the gaps in hours: (n Q - S^2) / (n (n - 1) 24^2) with S
\* the sum and Q the sum of squares; 5.0 squared for fewer than 2 gaps
C22_Std2 ==
    LET gaps == Gaps(ParsedSorted(df))
        n    == Len(gaps)
        h    == [i \in 1..n |-> gaps[i] \div HourSecs]
        S    == SumTo(h, n)
        Q    == SumTo([i \in 1..n |-> h[i] * h[i]], n)
        num  == n * Q - S * S
        den  == n * (n - 1) * 576
        e    == GCD(num, den)
    IN  IF n < 2 THEN [n |-> 25, d |-> 1]
        ELSE [n |-> num \div e, d |-> den \div e]

\* C22: in cadence_stats the gap standard deviation used for the stability
\* term is 5.0 whenever fewer than 2 gaps are available (one or two
\* parseable timestamps), and is the standard deviation of the gaps
\* otherwise.
C22_GapStdDefault ==
    pc = "cadence" /\ ParseableRows # <<>> =>
        /\ ValueGe(C14_Freq, C22_Std2, 2 * cad.consistency_100)
        /\ ~ValueGe(C14_Freq, C22_Std2, 2 * cad.consistency_100 + 2)
        /\ Len(ParseableRows) <= 2 =>
              cad.consistency_100 = (7 * C14_Freq + 150) \div 30

\* two uploads a day apart: one gap, 7 uploads a week, 70 + 30 / 6 = 75
C22_Witness ==
    /\ pc = "cadence"
    /\ Len(ParseableRows) = 2 /\ Len(df) = 2
    /\ cad.uploads_week = Num(700)
    /\ cad.consistency_100 = 75

\* three uploads with gaps of 1 hour and 1 day: the deviation is counted
C22_TwoGaps ==
    /\ pc = "cadence"
    /\ Len(ParseableRows) = 3
    /\ C22_Std2 = [n |-> 529, d |-> 1152]
    /\ cad.consistency_100 = 87

\* the gap g of a batch whose timestamps all parse, number at least three
\* and are equally spaced g > 0 seconds apart; 0 for any other batch
EqualGap ==
    LET d == ParsedSorted(df)
    IN  IF /\ Len(d) = Len(df) /\ Len(d) >= 3
           /\ d[2] - d[1] > 0
           /\ \A i \in 1..(Len(d) - 1) : d[i + 1] - d[i] = d[2] - d[1]
        THEN d[2] - d[1] ELSE 0

\* C15 as stated: for publish timestamps equally spaced g > 0 days apart
\* with at least two gaps, cadence_stats returns uploads_week =
\* round(7/g, 2) and median_gap_days = g with gap standard deviation 0; for
\* gaps of exactly 7 days repeated 5 times it returns uploads_week = 1.0,
\* median_gap_days = 7.0 and consistency = 53.
C15_AsStated ==
    pc = "cadence" /\ EqualGap > 0 =>
        /\ cad.uploads_week = Num(RoundDiv(7 * DaySecs * 100, EqualGap))
        /\ IsNum(cad.median_gap_days)
        /\ cad.median_gap_days.v * DaySecs = 100 * EqualGap
        /\ cad.consistency_100 = 30 + (7 * FreqCap(cad.uploads_week)) \div 30

\* C15 amended: for publish timestamps equally spaced g > 0 days apart
\* with at least two gaps, cadence_stats returns uploads_week =
\* round(7/g, 2) and median_gap_days = round(g, 2), and the consistency is
\* that of a gap standard deviation of 0; for gaps of exactly 7 days
\* repeated 5 times it returns uploads_week = 1.0, median_gap_days = 7.0
\* and consistency = 53.
C15_EquallySpaced ==
    pc = "cadence" /\ EqualGap > 0 =>
        /\ cad.uploads_week = Num(RoundDiv(7 * DaySecs * 100, EqualGap))
        /\ cad.median_gap_days = Num(RoundDiv(100 * EqualGap, DaySecs))
        /\ cad.consistency_100 = 30 + (7 * FreqCap(cad.uploads_week)) \div 30
        /\ (EqualGap = 7 * DaySecs /\ Len(df) = 6) =>
              /\ cad.uploads_week = Num(100)
              /\ cad.median_gap_days = Num(700)
              /\ cad.consistency_100 = 53

\* the example: six uploads seven days apart
C15_Witness ==
    /\ pc = "cadence"
    /\ Len(df) = 6 /\ EqualGap = 7 * DaySecs
    /\ cad.uploads_week = Num(100)
    /\ cad.consistency_100 = 53

-----------------------------------------------------------------------------
(* Channel Health Score of build_youtube_audit_pdf (src/pdf_report.py).    *)
(* The floats of the report are exact fractions [n, d] in lowest terms     *)
(* with d > 0. A field of a video dict is a Python value: Num(x), NaN,     *)
(* None (v.get gives None for an absent key as well) or Text, a string     *)
(* that float() rejects. seo_score is in points, ctr in percent,           *)
(* watch_time_hours in hours; all of them are non-negative.                *)

Text == [kind |-> "str", v |-> 0]

Rat(n, d) == LET g == GCD(n, d) IN [n |-> n \div g, d |-> d \div g]
RatAdd(a, b) == Rat(a.n * b.d + b.n * a.d, a.d * b.d)
RatMul(a, p, q) == Rat(a.n * p, a.d * q)
RatLe(a, b) == a.n * b.d <= b.n * a.d
RatMin(a, b) == IF RatLe(a, b) THEN a ELSE b
RatMax(a, b) == IF RatLe(b, a) THEN a ELSE b

RECURSIVE RatSum(_, _)
RatSum(seq, n) ==
    IF n = 0 THEN Rat(0, 1) ELSE RatAdd(RatSum(seq, n - 1), seq[n].v)

\* [v.get(key) for v in videos], numbers as fractions
FieldList(vs, key) ==
    [i \in 1..Len(vs) |->
        IF IsNum(vs[i][key]) THEN Num(Rat(vs[i][key].v, 1)) ELSE vs[i][key]]

\* _avg: None, NaN and blank entries are dropped; the mean of the rest,
\* 0.0 when nothing is left
avg(seq) ==
    LET kept == SelectSeq(seq, IsNum)
    IN  IF kept = <<>> THEN Rat(0, 1)
        ELSE RatMul(RatSum(kept, Len(kept)), 1, Len(kept))

\* float(v.get(key) or 0): raises on a string that is not a number
FloatOrZero(x) ==
    IF x.kind = "str" THEN [raised |-> TRUE, x |-> NaN]
    ELSE [raised |-> FALSE, x |-> OrZero(x)]

\* the loop that fills er_list; an entry is a fraction or NaN
ErList(vs) ==
    LET F(i, key) == FloatOrZero(vs[i][key])
        live == SelectSeq([i \in 1..Len(vs) |-> i],
                          LAMBDA i : IsNum(F(i, "views").x)
                                     /\ F(i, "views").x.v > 0)
    IN  [raised |-> \E i \in 1..Len(vs) :
                       \E key \in {"likes", "comments", "views"} :
                          F(i, key).raised,
         list |-> [j \in 1..Len(live) |->
                     LET likes    == F(live[j], "likes").x
                         comments == F(live[j], "comments").x
                         views    == F(live[j], "views").x
                     IN  IF IsNum(likes) /\ IsNum(comments)
                         THEN Num(Rat((likes.v + comments.v) * 100, views.v))
                         ELSE NaN]]

Hundred == Rat(100, 1)
Clamp100(x) == RatMax(Rat(0, 1), RatMin(Hundred, x))

PillarNames ==
    <<"Content Optimization", "Engagement", "Consistency",
      "SEO/Discoverability", "Retention">>

weights ==
    [p \in {PillarNames[i] : i \in 1..5} |->
        CASE p = "Content Optimization" -> 25
          [] p = "Engagement" -> 20
          [] p = "Consistency" -> 15
          [] p = "SEO/Discoverability" -> 20
          [] p = "Retention" -> 20]

Retention_Uncapped(avg_wt) == RatAdd(Rat(50, 1), RatMul(avg_wt, 5, 1))
RetentionPillar(avg_wt) ==
    RatMin(Hundred, RatAdd(Rat(50, 1), RatMul(avg_wt, 5, 1)))

EngagementPillar(vs, avg_ctr) ==
    LET er == ErList(vs)
    IN  IF er.raised THEN Clamp100(avg_ctr)
        ELSE IF er.list # <<>> THEN Clamp100(RatMul(avg(er.list), 2, 1))
        ELSE Clamp100(avg_ctr)

SeoPillar(avg_ctr, avg_seo) ==
    IF avg_ctr.n # 0 THEN RatMin(Hundred, RatMul(avg_ctr, 10, 1))
    ELSE RatMin(Hundred, RatMul(avg_seo, 9, 10))

Pillars(vs) ==
    LET avg_wt  == avg(FieldList(vs, "watch_time_hours"))
        avg_ctr == avg(FieldList(vs, "ctr"))
        avg_seo == avg(FieldList(vs, "seo_score"))
    IN  [p \in {PillarNames[i] : i \in 1..5} |->
            CASE p = "Content Optimization" -> RatMin(Hundred, avg_seo)
              [] p = "Engagement" -> EngagementPillar(vs, avg_ctr)
              [] p = "Consistency" -> Rat(70, 1)
              [] p = "SEO/Discoverability" -> SeoPillar(avg_ctr, avg_seo)
              [] p = "Retention" -> RetentionPillar(avg_wt)]

RECURSIVE WeightedSum(_, _)
WeightedSum(ps, n) ==
    IF n = 0 THEN Rat(0, 1)
    ELSE RatAdd(WeightedSum(ps, n - 1),
                RatMul(ps[PillarNames[n]], weights[PillarNames[n]], 1))

Overall(ps) == RatMul(WeightedSum(ps, 5), 1, 100)

\* the batches handed to the report
MaxVideos == 2

NoEngagement == [likes |-> None, comments |-> None, views |-> None]

Engagements ==
    { NoEngagement,
      [likes |-> None, comments |-> None, views |-> Num(100)],
      [likes |-> Num(90), comments |-> Num(10), views |-> Num(100)],
      [likes |-> NaN, comments |-> Num(5), views |-> Num(300)],
      [likes |-> Num(3), comments |-> None, views |-> Num(0)],
      [likes |-> Text, comments |-> Num(1), views |-> Num(100)] }

\* video dicts: every engagement with every ctr, and every ctr with every
\* SEO score and watch time
PdfVideos ==
    { e @@ [seo_score |-> Num(100), ctr |-> c, watch_time_hours |-> None] :
        e \in Engagements, c \in {None, Num(0), Num(12)} }
    \cup
    { NoEngagement @@ [seo_score |-> s, ctr |-> c, watch_time_hours |-> w] :
        s \in {None, Num(45), Num(100)},
        c \in {None, Num(0), Num(12)},
        w \in {None, Num(12)} }

InitPdf ==
    /\ pc = "build"
    /\ \E n \in 0..MaxVideos : videos \in [1..n -> PdfVideos]
    /\ pillars = Idle /\ overall = Idle
    /\ IdleSeo /\ IdleTips /\ IdleDrop /\ IdleAudit /\ IdleLic

\* the Channel Health section of build_youtube_audit_pdf
ChannelHealth ==
    /\ pc = "build"
    /\ LET ps == Pillars(videos)
       IN  pillars' = ps /\ overall' = Overall(ps)
    /\ pc' = "built"
    /\ UNCHANGED videos
    /\ UNCHANGED <<seoVars, tipsVars, dropVars, auditVars, licVars>>

NextPdf == ChannelHealth

SpecPdf == InitPdf /\ [][NextPdf]_vars

InUnit(x) == RatLe(Rat(0, 1), x) /\ RatLe(x, Hundred)

\* C17: the overall Channel Health score is the sum over the five pillars
\* of pillar * weight, divided by 100, the weights are 25, 20, 15, 20, 20
\* and sum to 100, and for every batch (the empty one and those without
\* ctr, watch time, likes or comments included) each pillar and the
\* overall score lie in 0..100.
C17_ChannelHealth ==
    pc = "built" =>
        /\ <<weights["Content Optimization"], weights["Engagement"],
             weights["Consistency"], weights["SEO/Discoverability"],
             weights["Retention"]>> = <<25, 20, 15, 20, 20>>
        /\ weights["Content Optimization"] + weights["Engagement"]
             + weights["Consistency"] + weights["SEO/Discoverability"]
             + weights["Retention"] = 100
        /\ \A p \in DOMAIN pillars : InUnit(pillars[p])
        /\ DOMAIN pillars = DOMAIN weights
        /\ overall = RatMul(
              RatAdd(RatAdd(RatAdd(RatAdd(
                  RatMul(pillars["Content Optimization"], 25, 1),
                  RatMul(pillars["Engagement"], 20, 1)),
                  RatMul(pillars["Consistency"], 15, 1)),
                  RatMul(pillars["SEO/Discoverability"], 20, 1)),
                  RatMul(pillars["Retention"], 20, 1)), 1, 100)
        /\ InUnit(overall)

\* the empty batch, and a batch that has no ctr, watch time, likes or
\* comments whose scores are capped at the top of the range
C17_Witness ==
    /\ pc = "built"
    /\ Len(videos) = 2
    /\ \A i \in 1..2 : videos[i].ctr = None /\ videos[i].likes = None
                       /\ videos[i].watch_time_hours = None
    /\ videos[1].seo_score = Num(100) /\ videos[2].seo_score = Num(100)
    /\ pillars["Content Optimization"] = Hundred
    /\ pillars["Retention"] = Rat(50, 1)
    /\ overall = Rat(127, 2)

C17_EmptyBatch ==
    /\ pc = "built" /\ videos = <<>>
    /\ pillars["Retention"] = Rat(50, 1)
    /\ overall = Rat(41, 2)

C23_AvgCtr == avg(FieldList(videos, "ctr"))
C23_AvgSeo == avg(FieldList(videos, "seo_score"))
C23_CtrProxy == RatMin(Hundred, RatMul(C23_AvgCtr, 10, 1))
C23_SeoProxy == RatMin(Hundred, RatMul(C23_AvgSeo, 9, 10))

\* C23: the SEO/Discoverability pillar is the CTR-scaled proxy
\* min(100, 10 * average_ctr) for every batch in which some video carries
\* a ctr value, a value of 0 included, and the scaled SEO-score proxy
\* min(100, 0.9 * average_seo) only when no video has click-through data.
C23_CtrProxyWhenCtrExists ==
    pc = "built" =>
        pillars["SEO/Discoverability"]
            = IF \E i \in 1..Len(videos) : IsNum(videos[i].ctr)
              THEN C23_CtrProxy
              ELSE C23_SeoProxy

\* what the code does: the CTR proxy when the average ctr is not 0, the
\* SEO-score proxy otherwise
C23_CtrProxyWhenAverageNotZero ==
    pc = "built" =>
        pillars["SEO/Discoverability"]
            = IF C23_AvgCtr # Rat(0, 1) THEN C23_CtrProxy ELSE C23_SeoProxy

\* every video has a ctr of 0 and an SEO score of 100: the pillar is 90
C23_ZeroCtr ==
    /\ pc = "built"
    /\ Len(videos) = 2
    /\ \A i \in 1..2 : videos[i].ctr = Num(0) /\ videos[i].seo_score = Num(100)
    /\ pillars["SEO/Discoverability"] = Rat(90, 1)

\* a video has likes/comments data; a video has views > 0
C24_HasCounts(vd) == IsNum(vd.likes) \/ IsNum(vd.comments)
C24_HasViews(vd) == IsNum(vd.views) /\ vd.views.v > 0
C24_Count(x) == IF IsNum(x) THEN x.v ELSE 0

\* (likes + comments) / views * 100 of the videos that have views and no
\* unknown count, an absent count being 0
C24_Rates ==
    LET live == SelectSeq(videos,
                    LAMBDA vd : C24_HasViews(vd)
                                /\ vd.likes.kind \in {"num", "none"}
                                /\ vd.comments.kind \in {"num", "none"})
    IN  [j \in 1..Len(live) |->
            Num(Rat((C24_Count(live[j].likes) + C24_Count(live[j].comments))
                        * 100, live[j].views.v))]

C24_Formula == RatMin(Hundred, RatMul(avg(C24_Rates), 2, 1))
C24_Fallback == RatMin(Hundred, C23_AvgCtr)

\* C24: the Engagement pillar is min(100, 2 * average of
\* (likes+comments)/views*100) when engagement data is present, and the
\* CTR-based proxy min(100, average_ctr) when it is absent (no video has
\* likes/comments data or no video has views > 0); computing it never
\* raises.
C24_FallbackWithoutCounts ==
    pc = "built" =>
        /\ pillars # Idle
        /\ pillars["Engagement"]
             = IF /\ \E i \in 1..Len(videos) : C24_HasCounts(videos[i])
                  /\ \E i \in 1..Len(videos) : C24_HasViews(videos[i])
               THEN C24_Formula
               ELSE C24_Fallback

\* what the code does: the fallback only when no video has views > 0 or a
\* count is a string that is not a number; absent counts of a video with
\* views count as 0
C24_FallbackWithoutViews ==
    pc = "built" =>
        /\ pillars # Idle
        /\ pillars["Engagement"]
             = IF /\ \E i \in 1..Len(videos) : C24_HasViews(videos[i])
                  /\ \A i \in 1..Len(videos) : videos[i].likes.kind # "str"
               THEN C24_Formula
               ELSE C24_Fallback

\* a video with 100 views, no likes or comments data and a ctr of 12: the
\* pillar is 0, not the CTR proxy 12
C24_ZeroInsteadOfFallback ==
    /\ pc = "built"
    /\ Len(videos) = 1
    /\ videos[1].likes = None /\ videos[1].comments = None
    /\ videos[1].views = Num(100) /\ videos[1].ctr = Num(12)
    /\ pillars["Engagement"] = Rat(0, 1)

-----------------------------------------------------------------------------
(* License store and license gate (src/app.py, "License store + Admin").   *)
(* The disk is fs = [file, tmp, data]: the inode that LICENSE_FILE and     *)
(* LICENSE_FILE + ".tmp" name (0: no such file) and the content of every   *)
(* inode in use. A content is the text of a file: empty, the JSON of a     *)
(* store (its keys; notes and dates are left out), or garbage.             *)

Json(keys) == [kind |-> "json", keys |-> keys]
Empty      == [kind |-> "empty", keys |-> {}]
Garbage    == [kind |-> "garbage", keys |-> {}]

NoDisk == [file |-> 0, tmp |-> 0, data |-> <<>>]

\* a disk whose license file holds the store keys
DiskWith(keys) == [file |-> 1, tmp |-> 0, data |-> (1 :> Json(keys))]

\* _lic_load: {} when the file is missing or json.load fails
lic_load(f) ==
    IF f.file = 0 THEN {}
    ELSE IF f.data[f.file].kind = "json" THEN f.data[f.file].keys
    ELSE {}

has_license(f, key) == key \in lic_load(f)

\* the inodes of f that a path or one of the open handles hs still names
Forget(f, hs) ==
    LET live == ({f.file, f.tmp} \cup hs) \ {0}
    IN  [f EXCEPT !.data = [i \in live |-> f.data[i]]]

\* open(tmp, "w"): the file that tmp names is truncated, or a new one is
\* created; h is the inode of the handle
open_tmp(f) ==
    IF f.tmp # 0
    THEN [fs |-> [f EXCEPT !.data[f.tmp] = Empty], h |-> f.tmp]
    ELSE LET new == CHOOSE i \in 1..(Cardinality(DOMAIN f.data) + 1) :
                        /\ i \notin DOMAIN f.data
                        /\ \A j \in 1..(i - 1) : j \in DOMAIN f.data
         IN  [fs |-> [f EXCEPT !.tmp = new, !.data = (new :> Empty) @@ f.data],
              h  |-> new]

\* json.dump and the close of the handle h: the texts the file can hold
\* afterwards. Written over an empty file the text is the store; written
\* from offset 0 over a text that another handle has put there since the
\* truncation it is the store or, when that text was longer, garbage.
dump(f, h, store) ==
    IF f.data[h].kind = "empty"
    THEN {[f EXCEPT !.data[h] = Json(store)]}
    ELSE {[f EXCEPT !.data[h] = Json(store)], [f EXCEPT !.data[h] = Garbage]}

\* os.replace(tmp, LICENSE_FILE): FileNotFoundError when tmp is not there
replace(f) ==
    IF f.tmp = 0 THEN [raised |-> TRUE, fs |-> f]
    ELSE [raised |-> FALSE, fs |-> [f EXCEPT !.file = f.tmp, !.tmp = 0]]

\* _lic_save run by itself, no other call in between
lic_save(f, store) ==
    LET o == open_tmp(f)
        w == CHOOSE g \in dump(o.fs, o.h, store) : g.data[o.h].kind = "json"
    IN  Forget(replace(w).fs, {})

add_license(f, key) == lic_save(f, lic_load(f) \cup {key})

delete_license(f, key) ==
    IF key \in lic_load(f) THEN lic_save(f, lic_load(f) \ {key}) ELSE f

-----------------------------------------------------------------------------
(* SpecLicense: one browser session; every action is one run of the script *)
(* with one widget used                                                    *)

LicenseKeys == {"k1", "k2", "k3", "k4", "k5"}
Typed == LicenseKeys \cup {""}
Passwords == {"", "guess"}

\* require_license at the end of a run with session state ss: the script
\* goes on to the tabs, or st.stop() ends it
require_license(ss) == IF ss.admin \/ ss.licensed THEN "tabs" ELSE "stopped"

\* the page as first loaded: nothing clicked, the script stopped at the gate
InitLicense ==
    /\ pc = "stopped"
    /\ fs \in {NoDisk, DiskWith({"k1"})}
    /\ session_state = [licensed |-> FALSE, admin |-> FALSE]
    /\ activated = "never"
    /\ procs = Idle
    /\ IdleSeo /\ IdleTips /\ IdleDrop /\ IdleAudit /\ IdlePdf

\* the "Activate" button with lic_in in the text field
Activate ==
    /\ \E lic_in \in Typed :
          /\ session_state' =
                [session_state EXCEPT !.licensed = has_license(fs, lic_in)]
          /\ activated' = IF has_license(fs, lic_in) THEN "valid" ELSE "invalid"
    /\ pc' = require_license(session_state')
    /\ UNCHANGED <<fs, procs>>
    /\ UNCHANGED <<seoVars, tipsVars, dropVars, auditVars, pdfVars>>

\* the "Open Admin" button: any password that is not empty opens admin mode
OpenAdmin ==
    /\ \E admin_pwd \in Passwords :
          session_state' =
             IF admin_pwd # "" THEN [session_state EXCEPT !.admin = TRUE]
             ELSE session_state
    /\ pc' = require_license(session_state')
    /\ UNCHANGED <<fs, activated, procs>>
    /\ UNCHANGED <<seoVars, tipsVars, dropVars, auditVars, pdfVars>>

\* the "Add key" button of the admin panel
AddKey ==
    /\ session_state.admin
    /\ \E new_key \in Typed :
          fs' = IF new_key # "" THEN add_license(fs, new_key) ELSE fs
    /\ pc' = require_license(session_state)
    /\ UNCHANGED <<session_state, activated, procs>>
    /\ UNCHANGED <<seoVars, tipsVars, dropVars, auditVars, pdfVars>>

\* the "Delete key" button of the admin panel
DeleteKey ==
    /\ session_state.admin
    /\ \E del_key \in Typed :
          fs' = IF del_key # "" THEN delete_license(fs, del_key) ELSE fs
    /\ pc' = require_license(session_state)
    /\ UNCHANGED <<session_state, activated, procs>>
    /\ UNCHANGED <<seoVars, tipsVars, dropVars, auditVars, pdfVars>>

NextLicense == Activate \/ OpenAdmin \/ AddKey \/ DeleteKey

SpecLicense == InitLicense /\ [][NextLicense]_vars

\* the last run of the script went past require_license
PassesGate == pc = "tabs"

\* C29: the dashboard tabs are usable only by a session that entered a
\* valid license key and clicked Activate: in every reachable session
\* state in which execution passes require_license, the session's last
\* Activate click was made with a key that was in the license store at
\* that moment.
C29_GateNeedsValidKey == PassesGate => activated = "valid"

\* what holds: a session that is not in admin mode passes only after a
\* valid Activate
C29_GateWithoutAdmin ==
    PassesGate /\ ~session_state.admin => activated = "valid"

\* a session that never clicked Activate, typed some admin password and
\* passes the gate
C29_AdminBypass ==
    /\ session_state.admin /\ ~session_state.licensed
    /\ activated = "never"
    /\ PassesGate

-----------------------------------------------------------------------------
(* SpecStore: two sessions call add_license and delete_license, each on    *)
(* its own key; the steps of the calls interleave. A call is at "idle"     *)
(* (not running), "save" (store loaded and changed, _lic_save entered),    *)
(* "opened" (tmp open for writing) or "written" (tmp closed).              *)

MaxCalls == 1

Sessions == {1, 2}
KeyOf(i) == IF i = 1 THEN "k1" ELSE "k2"

NoCall ==
    [pc |-> "idle", s |-> {}, h |-> 0, calls |-> 0, raised |-> FALSE,
     kept |-> FALSE]

\* kept: whether the session's key is to be in the store, by its last call
\* or, before any call, by the store as it was
InitStore ==
    /\ pc = "store"
    /\ \E keys \in SUBSET {KeyOf(i) : i \in Sessions} :
          /\ fs = DiskWith(keys)
          /\ procs = [i \in Sessions |->
                         [NoCall EXCEPT !.kept = KeyOf(i) \in keys]]
    /\ session_state = Idle /\ activated = Idle
    /\ IdleSeo /\ IdleTips /\ IdleDrop /\ IdleAudit /\ IdlePdf

\* the handles that the sessions other than i hold open
OpenHandles(i) ==
    {procs[j].h : j \in {j \in Sessions : j # i /\ procs[j].pc = "opened"}}

\* add_license(key) up to the call of _lic_save: s = _lic_load();
\* s[key] = {...}
AddLoad(i) ==
    /\ procs[i].pc = "idle"
    /\ procs[i].calls < MaxCalls
    /\ procs' = [procs EXCEPT ![i].pc = "save",
                              ![i].s = lic_load(fs) \cup {KeyOf(i)},
                              ![i].calls = @ + 1,
                              ![i].kept = TRUE]
    /\ UNCHANGED fs

\* delete_license(key) up to the call of _lic_save; the call is over when
\* the key is not in the store that was loaded
DeleteLoad(i) ==
    /\ procs[i].pc = "idle"
    /\ procs[i].calls < MaxCalls
    /\ procs' = [procs EXCEPT
                    ![i].pc = IF KeyOf(i) \in lic_load(fs) THEN "save" ELSE "idle",
                    ![i].s = lic_load(fs) \ {KeyOf(i)},
                    ![i].calls = @ + 1,
                    ![i].kept = FALSE]
    /\ UNCHANGED fs

\* _lic_save: open(tmp, "w")
SaveOpen(i) ==
    /\ procs[i].pc = "save"
    /\ LET o == open_tmp(fs)
       IN  /\ fs' = o.fs
           /\ procs' = [procs EXCEPT ![i].pc = "opened", ![i].h = o.h]

\* _lic_save: json.dump(store, f) and the end of the with block
SaveDump(i) ==
    /\ procs[i].pc = "opened"
    /\ \E g \in dump(fs, procs[i].h, procs[i].s) :
          fs' = Forget(g, OpenHandles(i))
    /\ procs' = [procs EXCEPT ![i].pc = "written", ![i].h = 0]

\* _lic_save: os.replace(tmp, LICENSE_FILE); the call is over, with an
\* exception when tmp is gone
SaveReplace(i) ==
    /\ procs[i].pc = "written"
    /\ LET r == replace(fs)
       IN  /\ fs' = Forget(r.fs, OpenHandles(i))
           /\ procs' = [procs EXCEPT ![i].pc = "idle", ![i].raised = r.raised]

NextStore ==
    /\ \E i \in Sessions :
          \/ AddLoad(i)
          \/ DeleteLoad(i)
          \/ SaveOpen(i)
          \/ SaveDump(i)
          \/ SaveReplace(i)
    /\ UNCHANGED <<pc, session_state, activated>>
    /\ UNCHANGED <<seoVars, tipsVars, dropVars, auditVars, pdfVars>>

SpecStore == InitStore /\ [][NextStore]_vars

AllCallsDone == \A i \in Sessions : procs[i].pc = "idle"

\* the license file holds a complete JSON text
FileWhole == fs.file # 0 /\ fs.data[fs.file].kind = "json"

\* C30: license store updates are not lost under interleaving: for any
\* interleaving of add_license and delete_license calls on distinct keys
\* by two concurrent sessions, once all calls have completed the store
\* holds exactly the added keys that were not deleted, and the license
\* file is never observable in a partially written state.
C30_NoLostUpdate ==
    /\ FileWhole
    /\ AllCallsDone =>
          \A i \in Sessions : has_license(fs, KeyOf(i)) <=> procs[i].kept

\* what holds: the calls of one session alone are kept
C30_OneSessionAlone ==
    (\E i \in Sessions : procs[i].calls = 0) =>
        /\ FileWhole
        /\ AllCallsDone =>
              \A i \in Sessions : has_license(fs, KeyOf(i)) <=> procs[i].kept

\* both sessions added their key to the empty store and one key is gone
C30_LostKey ==
    /\ AllCallsDone
    /\ \A i \in Sessions : procs[i].kept /\ procs[i].calls = 1 /\ ~procs[i].raised
    /\ FileWhole
    /\ lic_load(fs) = {"k2"}

\* the license file is empty: a session opened tmp again after the other
\* had written it, and the other then moved it over the license file
C30_EmptyLicenseFile ==
    /\ fs.file # 0
    /\ fs.data[fs.file].kind = "empty"

=============================================================================
